---- MODULE Spec2Model ----
(***************************************************************************)
(* Steam Defense: state-machine model of the simulation core.              *)
(*                                                                         *)
(* Part I   core/event_system.py   EventSystem, EventListener              *)
(*                                                                         *)
(* Each subsystem has its own variables, initial predicate and next-state  *)
(* relation; a subsystem's specification leaves the other subsystems'      *)
(* variables at their initial values.                                      *)
(***************************************************************************)
EXTENDS Integers, Sequences, FiniteSets, TLC

(***************************************************************************)
(* Bounds of the model                                                     *)
(***************************************************************************)
\* number of subscribe() calls explored
MaxListeners == 2
\* number of emit() calls explored (stats['events_sent'] is capped here)
MaxEmits == 3
\* number of EventSystem calls made from inside handlers that are explored
MaxHandlerCalls == 2
\* EventSystem.max_recursion_depth (10 in the source), explored at a small value
MaxRecursionDepth == 2
\* deque(maxlen=max_event_queue_size) (1000 in the source), explored small
MaxQueueSize == 2

(***************************************************************************)
(* Part I: EventSystem                                                     *)
(***************************************************************************)
VARIABLES
    listeners,                \* EventSystem.listeners[event_type][priority]: list of listener ids
    prioOrder,                \* key order of the dict EventSystem.listeners[event_type]
    lsn,                      \* the EventListener objects created so far, indexed by id
    event_queue,              \* EventSystem.event_queue
    immediate_events,         \* EventSystem.immediate_events
    stats,                    \* EventSystem.stats
    current_recursion_depth,  \* EventSystem.current_recursion_depth
    processing_events,        \* EventSystem.processing_events
    listener_cache,           \* EventSystem.listener_cache
    cache_dirty,              \* EventSystem.cache_dirty
    stack,                    \* the call stack: activations of process_events / _process_event
    handlerCalls              \* number of EventSystem calls made by handlers so far

evVars == <<listeners, prioOrder, lsn, event_queue, immediate_events, stats,
            current_recursion_depth, processing_events, listener_cache,
            cache_dirty, stack, handlerCalls>>

(***************************************************************************)
(* Part II: StateManager (core/state_manager.py) as used by core/game.py   *)
(***************************************************************************)
VARIABLES
    states,                \* StateManager.states: the registered state types
    current_state_type,    \* StateManager.current_state_type ("none" for None)
    previous_state_type,   \* StateManager.previous_state_type
    transitions,           \* StateManager.transitions[from]: list of StateTransition
    pending_state_change,  \* StateManager.pending_state_change (its state type)
    shared_flag,           \* StateManager.shared_data, as the one entry conditions read
    last_change,           \* the latest change_state call: requested type and returned value
    ticked                 \* Game.on_update has run since the latest accepted change_state

smVars == <<states, current_state_type, previous_state_type, transitions,
            pending_state_change, shared_flag, last_change, ticked>>

(***************************************************************************)
(* Part III: GameTimer (core/timer.py)                                     *)
(***************************************************************************)
VARIABLES
    timer_state,       \* GameTimer.state
    speed_multiplier,  \* GameTimer.speed_multiplier
    game_time,         \* GameTimer.game_time, in units of 1/60 s
    scheduled_events,  \* GameTimer.scheduled_events: list of ScheduledEvent
    completed_events,  \* GameTimer.completed_events
    pass,              \* the activation of _process_scheduled_events, if any
    fired              \* ids of the events whose callback ran in the current or latest pass

tmVars == <<timer_state, speed_multiplier, game_time, scheduled_events,
            completed_events, pass, fired>>

(***************************************************************************)
(* Part IV: Game (core/game.py)                                            *)
(***************************************************************************)
VARIABLES
    is_running,   \* Game.is_running
    is_paused,    \* Game.is_paused
    debug_mode    \* Game.debug_mode

gmVars == <<is_running, is_paused, debug_mode>>

(***************************************************************************)
(* Part V: Grid (world/grid.py)                                            *)
(***************************************************************************)
VARIABLES
    width,            \* Grid.width
    height,           \* Grid.height
    tiles,            \* Grid.tiles: the tile kind of each cell
    tile_properties,  \* Grid.tile_properties: dict from cells to TileProperties
    assigned          \* cells whose flags were assigned on the TileProperties object

grVars == <<width, height, tiles, tile_properties, assigned>>

(***************************************************************************)
(* Part VI: Pathfinder (world/pathfinding.py)                              *)
(***************************************************************************)
VARIABLES
    path_cache,      \* Pathfinder.path_cache: the items of the dict, oldest first
    cache_max_size,  \* Pathfinder.cache_max_size
    pf_stats,        \* Pathfinder.stats
    last_result,     \* the PathfindingResult returned by the latest find_path
    recency          \* the keys of path_cache, least recently used first

pfVars == <<path_cache, cache_max_size, pf_stats, last_result, recency>>

(***************************************************************************)
(* Part VII: EntityManager (gameplay/entities/entity.py)                   *)
(***************************************************************************)
VARIABLES
    entities,            \* EntityManager.entities: the ids it holds
    entities_by_tag,     \* EntityManager.entities_by_tag (no key: empty set)
    entities_by_type,    \* EntityManager.entities_by_type (no key: empty set)
    entities_to_add,     \* EntityManager.entities_to_add
    entities_to_remove,  \* EntityManager.entities_to_remove
    em_stats,            \* EntityManager.stats
    tags,                \* Entity.tags of each entity
    is_destroyed,        \* Entity.is_destroyed of each entity
    em_refused           \* ids queued for addition whose remove_entity
                         \* returned False since the last frame boundary

emVars == <<entities, entities_by_tag, entities_by_type, entities_to_add,
            entities_to_remove, em_stats, tags, is_destroyed, em_refused>>

(***************************************************************************)
(* Part VIII: MapGenerator (world/map_generator.py)                        *)
(***************************************************************************)
VARIABLES
    mg_pc,            \* where generate_map stands
    params,           \* the GenerationParams of the call
    current_grid,     \* MapGenerator.current_grid: tiles and tile_properties
    spawn_point,      \* MapGenerator.spawn_point
    base_point,       \* MapGenerator.base_point
    main_path,        \* MapGenerator.main_path, a list without order
    placement_zones,  \* MapGenerator.placement_zones
    walk_current,     \* current of _generate_main_path
    walk_path,        \* path of _generate_main_path, a list without order
    iteration,        \* iteration of _generate_main_path
    branch,           \* current, branch_path and the turns left of a branch
    attempts,         \* attempts of _generate_placement_zones
    todo              \* the turns left of the loop of decorations or chimneys

mgVars == <<mg_pc, params, current_grid, spawn_point, base_point, main_path,
            placement_zones, walk_current, walk_path, iteration, branch,
            attempts, todo>>

(***************************************************************************)
(* Part IX: Enemy (gameplay/entities/enemy.py)                             *)
(* Times are in tenths of a second, speeds in thousandths of a pixel per   *)
(* second, positions in thousandths of a pixel along the path, speed       *)
(* multipliers in thousandths, resistances in hundredths.                  *)
(***************************************************************************)
VARIABLES
    enemy_type,             \* Enemy.enemy_type ("none": no enemy created yet)
    en_stats,               \* Enemy.stats
    health,                 \* Enemy.health: the HealthComponent
    movement,               \* Enemy.movement: the MovementComponent
    active_effects,         \* Enemy.status_effects.active_effects: remaining time by effect type
    en_state,               \* Enemy.state
    behavior_timer,         \* Enemy.behavior_timer
    spawn_animation_timer,  \* Enemy.spawn_animation_timer
    en_call                 \* the arguments of a take_damage call that has just returned, and the calls so far

enVars == <<enemy_type, en_stats, health, movement, active_effects, en_state,
            behavior_timer, spawn_animation_timer, en_call>>

(***************************************************************************)
(* Part X: Tower (gameplay/entities/tower.py)                              *)
(* Times are in hundredths of a second, distances in pixels.               *)
(***************************************************************************)
VARIABLES
    tower_type,          \* Tower.tower_type ("none": no tower created yet)
    targeting_range,     \* Tower.targeting.range
    is_constructed,      \* Tower.is_constructed
    construction_timer,  \* Tower.construction_timer
    attack_timer,        \* Tower.attack.attack_timer
    tw_target,           \* Tower.attack.target: an index of foes, 0 for None
    last_scan_time,      \* Tower.targeting.last_scan_time
    foes,                \* the enemies handed to Tower.update
    tw_call              \* the latest call on the tower, what it did and the calls so far

twVars == <<tower_type, targeting_range, is_constructed, construction_timer,
            attack_timer, tw_target, last_scan_time, foes, tw_call>>

(***************************************************************************)
(* Part XI: ProjectileManager (gameplay/entities/projectile.py)            *)
(* Times are in tenths of a second, positions in pixels along the shot.    *)
(***************************************************************************)
VARIABLES
    active_projectiles,  \* ProjectileManager.active_projectiles
    cleanup_timer,       \* ProjectileManager.cleanup_timer
    pm_call              \* the calls so far, the hits at the end of the latest tick, the latest error

pjVars == <<active_projectiles, cleanup_timer, pm_call>>

(***************************************************************************)
(* Part XII: a Tower that shoots, with its projectiles and the enemies     *)
(* (gameplay/entities/tower.py, projectile.py, enemy.py)                   *)
(* Times are in tenths of a second, positions in pixels along the x axis.  *)
(***************************************************************************)
VARIABLES
    sn_built,        \* a constructed Tower exists
    sn_attack_timer, \* Tower.attack.attack_timer
    sn_target,       \* Tower.attack.target: an index of sn_enemies, 0 for None
    sn_projectiles,  \* Tower.active_projectiles
    sn_enemies,      \* the enemies handed to Tower.update
    sn_log           \* the calls so far, and per projectile the events emitted and the damage dealt

snVars == <<sn_built, sn_attack_timer, sn_target, sn_projectiles, sn_enemies, sn_log>>

(***************************************************************************)
(* Part XIII: ResourceManager and ResourceCache (core/resource_manager.py) *)
(* with the main thread and the cleanup thread                             *)
(***************************************************************************)
VARIABLES
    rc_metadata,     \* ResourceCache.metadata (and resources, which has the same keys): key -> resource type
    rc_lock,         \* ResourceCache._lock: its owner and how many times the owner holds it
    rc_pc,           \* per thread, the operation it is in and the step it is at
    rc_local,        \* per thread, the local variables of the operation it is in
    rc_access,       \* the latest access to the cache's dictionaries: thread, kind, lock held
    rc_log           \* the calls so far and the latest error

rcVars == <<rc_metadata, rc_lock, rc_pc, rc_local, rc_access, rc_log>>

\* the variables of the parts of gameplay/entities/ about single units, and
\* of the resource cache
unitVars == <<enVars, twVars, pjVars, snVars, rcVars>>

\* the variables of the parts outside core/
extVars == <<grVars, pfVars, emVars, mgVars, unitVars>>

vars == <<evVars, smVars, tmVars, gmVars, extVars>>

EventTypes == {"a"}

\* class EventPriority
LOW == 0
NORMAL == 1
HIGH == 2
CRITICAL == 3
Priorities == {LOW, NORMAL, HIGH, CRITICAL}

NoEvent == [type |-> "none", immediate |-> FALSE]

(* --- helpers on sequences --------------------------------------------- *)
RECURSIVE Flatten(_, _)
\* concatenation of byPrio[p] for p running through the sequence order
Flatten(byPrio, order) ==
    IF order = <<>> THEN <<>>
    ELSE byPrio[Head(order)] \o Flatten(byPrio, Tail(order))

InSeq(x, s) == \E i \in 1..Len(s) : s[i] = x

RemoveFromList(s, x) == SelectSeq(s, LAMBDA y : y # x)

(* --- EventListener ----------------------------------------------------- *)
\* EventListener.get_callback() is not None.  The listener keeps the strong
\* reference self.callback next to its weak reference, so the referent of the
\* weak reference lives as long as the listener does and get_callback()
\* returns the callback at every call.
CallbackAlive(L, l) == l \in 1..Len(L)

(* --- EventSystem._rebuild_cache ---------------------------------------- *)
RebuildCache(Ls, order, L) ==
    [et \in EventTypes |->
        SelectSeq(Flatten(Ls[et], order[et]), LAMBDA l : CallbackAlive(L, l))]

\* EventSystem._get_listeners_for_event: the cache after the call
CacheAfterGet == IF cache_dirty THEN RebuildCache(listeners, prioOrder, lsn)
                 ELSE listener_cache

(* --- sorted(listeners, key=priority.value, reverse=True) --------------- *)
OfPriority(s, p) == SelectSeq(s, LAMBDA l : lsn[l].priority = p)

\* a sort that puts the smallest priority value first
SortedListenersAscending(s) ==
    OfPriority(s, LOW) \o OfPriority(s, NORMAL) \o OfPriority(s, HIGH) \o OfPriority(s, CRITICAL)

\* Python's sort is stable, also with reverse=True
SortedListeners(s) ==
    OfPriority(s, CRITICAL) \o OfPriority(s, HIGH) \o OfPriority(s, NORMAL) \o OfPriority(s, LOW)

(* --- the call stack ----------------------------------------------------- *)
Top == stack[Len(stack)]

Pop(stk) == SubSeq(stk, 1, Len(stk) - 1)

DispatchFrame(ev, via, sorted) ==
    [kind |-> "dispatch", ev |-> ev, via |-> via, sorted |-> sorted, idx |-> 1,
     remove |-> <<>>, running |-> FALSE, phase |-> "none"]

DrainFrame ==
    [kind |-> "drain", ev |-> NoEvent, via |-> "none", sorted |-> <<>>, idx |-> 1,
     remove |-> <<>>, running |-> FALSE, phase |-> "immediate"]

\* the caller of an EventSystem method: code outside any dispatch, or the
\* handler that is executing at the top of the stack
CanCall ==
    \/ stack = <<>>
    \/ /\ stack # <<>>
       /\ Top.kind = "dispatch"
       /\ Top.running
       /\ handlerCalls < MaxHandlerCalls

\* bookkeeping of the calls made by handlers
CountCall == handlerCalls' = IF stack = <<>> THEN handlerCalls ELSE handlerCalls + 1

\* deque.append on a deque with maxlen: a full deque drops its oldest entry
QueueAppend(q, ev) ==
    IF Len(q) >= MaxQueueSize THEN Append(Tail(q), ev) ELSE Append(q, ev)

EvInit ==
    /\ listeners = [et \in EventTypes |-> [p \in Priorities |-> <<>>]]
    /\ prioOrder = [et \in EventTypes |-> <<>>]
    /\ lsn = <<>>
    /\ event_queue = <<>>
    /\ immediate_events = <<>>
    /\ stats = [events_sent |-> 0, events_processed |-> 0,
                listeners_called |-> 0, failed_calls |-> 0]
    /\ current_recursion_depth = 0
    /\ processing_events = FALSE
    /\ listener_cache = [et \in EventTypes |-> <<>>]
    /\ cache_dirty = TRUE
    /\ stack = <<>>
    /\ handlerCalls = 0

(* --- EventSystem.subscribe --------------------------------------------- *)
Subscribe(et, p, once) ==
    /\ CanCall
    /\ CountCall
    /\ Len(lsn) < MaxListeners
    /\ LET l == Len(lsn) + 1 IN
        /\ lsn' = Append(lsn, [etype |-> et, priority |-> p, once |-> once,
                               call_count |-> 0])
        /\ listeners' = [listeners EXCEPT ![et][p] = Append(@, l)]
        /\ prioOrder' = [prioOrder EXCEPT ![et] =
                            IF InSeq(p, @) THEN @ ELSE Append(@, p)]
    /\ cache_dirty' = TRUE
    /\ UNCHANGED stack
    /\ UNCHANGED <<event_queue, immediate_events, stats, current_recursion_depth,
                   processing_events, listener_cache>>

(* --- EventSystem.unsubscribe ------------------------------------------- *)
\* removal of listener l from every priority list of event type et; with
\* byCallback the listener is found through l.get_callback() == callback,
\* which a collected callback never satisfies
Removable(L, l, byCallback) == (~byCallback) \/ CallbackAlive(L, l)

UnsubscribeLists(Ls, order, L, et, l, byCallback) ==
    IF order[et] = <<>> \/ ~Removable(L, l, byCallback) THEN Ls
    ELSE [Ls EXCEPT ![et] = [p \in Priorities |-> RemoveFromList(@[p], l)]]

\* an unsubscribe that leaves cache_dirty as it finds it
UnsubscribeKeepsCache(et, l, byCallback) ==
    /\ CanCall
    /\ CountCall
    /\ l \in 1..Len(lsn)
    /\ listeners' = UnsubscribeLists(listeners, prioOrder, lsn, et, l, byCallback)
    /\ UNCHANGED cache_dirty
    /\ UNCHANGED stack
    /\ UNCHANGED <<prioOrder, lsn, event_queue, immediate_events, stats,
                   current_recursion_depth, processing_events, listener_cache>>

Unsubscribe(et, l, byCallback) ==
    /\ CanCall
    /\ CountCall
    /\ l \in 1..Len(lsn)
    /\ listeners' = UnsubscribeLists(listeners, prioOrder, lsn, et, l, byCallback)
    /\ cache_dirty' = (cache_dirty \/ listeners' # listeners)
    /\ UNCHANGED stack
    /\ UNCHANGED <<prioOrder, lsn, event_queue, immediate_events, stats,
                   current_recursion_depth, processing_events, listener_cache>>

(* --- EventSystem._process_event: entry ---------------------------------- *)
\* depth += 1; listeners = _get_listeners_for_event(); if not listeners: return
\* (the finally clause undoes the increment), else the handler loop starts
StartDispatch(ev, via, stk) ==
    /\ listener_cache' = CacheAfterGet
    /\ cache_dirty' = FALSE
    /\ IF CacheAfterGet[ev.type] = <<>>
       THEN /\ stack' = stk
            /\ current_recursion_depth' = current_recursion_depth
       ELSE /\ stack' = Append(stk, DispatchFrame(ev, via, SortedListeners(CacheAfterGet[ev.type])))
            /\ current_recursion_depth' = current_recursion_depth + 1

(* --- EventSystem.emit / emit_immediate ---------------------------------- *)
Emit(et, immediate) ==
    /\ CanCall
    /\ CountCall
    /\ stats.events_sent < MaxEmits
    /\ stats' = [stats EXCEPT !.events_sent = @ + 1]
    /\ LET ev == [type |-> et, immediate |-> immediate]
       IN IF immediate \/ current_recursion_depth < MaxRecursionDepth
          THEN IF immediate
               THEN /\ immediate_events' = Append(immediate_events, ev)
                    /\ UNCHANGED stack
                    /\ UNCHANGED <<event_queue, current_recursion_depth,
                                   listener_cache, cache_dirty>>
               ELSE /\ StartDispatch(ev, "emit", stack)
                    /\ UNCHANGED <<event_queue, immediate_events>>
          ELSE /\ event_queue' = QueueAppend(event_queue, ev)
               /\ UNCHANGED stack
               /\ UNCHANGED <<immediate_events, current_recursion_depth,
                              listener_cache, cache_dirty>>
    /\ UNCHANGED <<listeners, prioOrder, lsn, processing_events>>

(* --- EventSystem.process_events ----------------------------------------- *)
ProcessEvents ==
    /\ CanCall
    /\ CountCall
    /\ IF processing_events
       THEN /\ stack' = stack
            /\ UNCHANGED processing_events
       ELSE /\ processing_events' = TRUE
            /\ stack' = Append(stack, DrainFrame)
    /\ UNCHANGED <<listeners, prioOrder, lsn, event_queue, immediate_events, stats,
                   current_recursion_depth, listener_cache, cache_dirty>>

\* one iteration of the two while loops of process_events, or its return
DrainStep ==
    /\ UNCHANGED handlerCalls
    /\ stack # <<>>
    /\ Top.kind = "drain"
    /\ IF Top.phase = "immediate" /\ immediate_events # <<>>
       THEN /\ immediate_events' = Tail(immediate_events)
            /\ StartDispatch(Head(immediate_events), "drain", stack)
            /\ UNCHANGED <<event_queue, processing_events>>
       ELSE IF event_queue # <<>>
       THEN /\ event_queue' = Tail(event_queue)
            /\ StartDispatch(Head(event_queue), "drain",
                             [stack EXCEPT ![Len(stack)].phase = "queue"])
            /\ UNCHANGED <<immediate_events, processing_events>>
       ELSE /\ stack' = Pop(stack)
            /\ processing_events' = FALSE
            /\ UNCHANGED <<event_queue, immediate_events, current_recursion_depth,
                           listener_cache, cache_dirty>>
    /\ UNCHANGED <<listeners, prioOrder, lsn, stats>>

(* --- EventSystem._process_event: the handler loop ----------------------- *)
AtListener ==
    /\ stack # <<>>
    /\ Top.kind = "dispatch"
    /\ ~Top.running
    /\ Top.idx <= Len(Top.sorted)

\* listener.call(event): the callback starts executing
CallHandler ==
    /\ UNCHANGED handlerCalls
    /\ AtListener
    /\ CallbackAlive(lsn, Top.sorted[Top.idx])
    /\ stack' = [stack EXCEPT ![Len(stack)].running = TRUE]
    /\ UNCHANGED <<listeners, prioOrder, lsn, event_queue, immediate_events, stats,
                   current_recursion_depth, processing_events, listener_cache,
                   cache_dirty>>

InHandler ==
    /\ stack # <<>>
    /\ Top.kind = "dispatch"
    /\ Top.running

\* a call that swallows the error without counting the failure
AfterRaiseUncounted(stk, st) ==
    /\ stats' = st
    /\ stack' = [stk EXCEPT ![Len(stk)].running = FALSE,
                            ![Len(stk)].idx = @ + 1]
    /\ lsn' = lsn

\* the callback raises: EventListener.call catches it and returns False
AfterRaise(stk, st) ==
    LET l == stk[Len(stk)].sorted[stk[Len(stk)].idx] IN
    /\ stats' = [st EXCEPT !.failed_calls = @ + 1]
    /\ stack' = [stk EXCEPT ![Len(stk)].running = FALSE,
                            ![Len(stk)].idx = @ + 1,
                            ![Len(stk)].remove =
                                IF CallbackAlive(lsn, l) THEN @ ELSE Append(@, l)]
    /\ lsn' = lsn

\* the callback returns: EventListener.call returns True
AfterReturn(stk, st) ==
    LET l == stk[Len(stk)].sorted[stk[Len(stk)].idx] IN
    /\ lsn' = [lsn EXCEPT ![l].call_count = @ + 1]
    /\ stats' = [st EXCEPT !.listeners_called = @ + 1]
    /\ stack' = [stk EXCEPT ![Len(stk)].running = FALSE,
                            ![Len(stk)].idx = @ + 1,
                            ![Len(stk)].remove =
                                IF lsn[l].once THEN Append(@, l) ELSE @]

HandlerRaise ==
    /\ UNCHANGED handlerCalls
    /\ InHandler
    /\ AfterRaise(stack, stats)
    /\ UNCHANGED <<listeners, prioOrder, event_queue, immediate_events,
                   current_recursion_depth, processing_events, listener_cache,
                   cache_dirty>>

HandlerReturn ==
    /\ UNCHANGED handlerCalls
    /\ InHandler
    /\ AfterReturn(stack, stats)
    /\ UNCHANGED <<listeners, prioOrder, event_queue, immediate_events,
                   current_recursion_depth, processing_events, listener_cache,
                   cache_dirty>>

(* --- EventSystem._process_event: after the loop ------------------------- *)
RECURSIVE RemoveAll(_, _, _)
\* for event_type, listener in listeners_to_remove: self.unsubscribe(...)
RemoveAll(Ls, et, rem) ==
    IF rem = <<>> THEN Ls
    ELSE RemoveAll(UnsubscribeLists(Ls, prioOrder, lsn, et, Head(rem), FALSE), et, Tail(rem))

FinishDispatch ==
    /\ UNCHANGED handlerCalls
    /\ stack # <<>>
    /\ Top.kind = "dispatch"
    /\ ~Top.running
    /\ Top.idx > Len(Top.sorted)
    /\ listeners' = RemoveAll(listeners, Top.ev.type, Top.remove)
    /\ cache_dirty' = (cache_dirty \/ listeners' # listeners)
    /\ stats' = [stats EXCEPT !.events_processed = @ + 1]
    /\ current_recursion_depth' = current_recursion_depth - 1
    /\ stack' = Pop(stack)
    /\ UNCHANGED <<prioOrder, lsn, event_queue, immediate_events,
                   processing_events, listener_cache>>

(***************************************************************************)
(* Part II: StateManager                                                   *)
(***************************************************************************)
\* class GameStateType
StateTypes == {"main_menu", "gameplay", "pause", "game_over", "victory",
               "settings", "level_select", "loading"}

\* the state classes of gameplay/states, which Game._setup_states registers
StateClasses == {"main_menu", "gameplay", "pause", "game_over"}

\* the conditional transitions explored: one that the default table lacks and
\* one that comes after a default transition between the same states
ExtraCandidates == {<<"game_over", "gameplay">>, <<"gameplay", "pause">>}

\* number of register_transition calls explored besides the default table
MaxExtraTransitions == 1

Transition(from, to, condition) == [from |-> from, to |-> to, condition |-> condition]

\* StateManager.setup_default_transitions: the transitions in registration order
DefaultTransitions ==
    << Transition("main_menu", "gameplay", "none"),
       Transition("gameplay", "pause", "none"),
       Transition("pause", "gameplay", "none"),
       Transition("gameplay", "game_over", "none"),
       Transition("gameplay", "victory", "none"),
       Transition("game_over", "main_menu", "none"),
       Transition("victory", "main_menu", "none"),
       Transition("pause", "main_menu", "none"),
       Transition("main_menu", "settings", "none"),
       Transition("settings", "main_menu", "none"),
       Transition("main_menu", "level_select", "none"),
       Transition("level_select", "main_menu", "none"),
       Transition("level_select", "loading", "none"),
       Transition("loading", "gameplay", "none") >>

RECURSIVE RegisterAll(_, _)
\* StateManager.register_transition, once for each transition of a list
RegisterAll(table, ts) ==
    IF ts = <<>> THEN table
    ELSE RegisterAll([table EXCEPT ![Head(ts).from] = Append(@, Head(ts))], Tail(ts))

\* StateTransition.can_transition(shared_data): no condition, or the
\* condition lambda data: data.get('flag')
CanTransition(t, flag) == t.condition = "none" \/ flag

\* a check that looks at the target only
IsTransitionAllowedAnySource(from, to) ==
    \E f \in StateTypes : \E i \in 1..Len(transitions[f]) : transitions[f][i].to = to

\* StateManager._is_transition_allowed: the first transition to to_state decides
IsTransitionAllowed(from, to) ==
    IF from \notin StateTypes \/ transitions[from] = <<>> THEN FALSE
    ELSE LET hits == SelectSeq(transitions[from], LAMBDA t : t.to = to)
         IN IF hits = <<>> THEN FALSE ELSE CanTransition(Head(hits), shared_flag)

SmInit ==
    /\ states = {}
    /\ current_state_type = "none"
    /\ previous_state_type = "none"
    /\ transitions = [f \in StateTypes |-> <<>>]
    /\ pending_state_change = "none"
    /\ shared_flag = FALSE
    /\ last_change = [to |-> "none", ret |-> FALSE]
    /\ ticked = FALSE

\* StateManager.register_state
RegisterState(st) ==
    /\ st \notin states
    /\ states' = states \cup {st}
    /\ UNCHANGED <<current_state_type, previous_state_type, transitions,
                   pending_state_change, shared_flag, last_change, ticked>>

\* StateManager.setup_default_transitions, on a table that has no transition yet
SetupDefaultTransitions ==
    /\ \A f \in StateTypes : transitions[f] = <<>>
    /\ transitions' = RegisterAll(transitions, DefaultTransitions)
    /\ UNCHANGED <<states, current_state_type, previous_state_type,
                   pending_state_change, shared_flag, last_change, ticked>>

ExtraTransitions ==
    LET n == [f \in StateTypes |-> Len(SelectSeq(transitions[f], LAMBDA t : t.condition # "none"))]
    IN Cardinality({f \in StateTypes : n[f] > 0})

\* StateManager.register_transition with a conditional transition
RegisterTransition(from, to) ==
    /\ ExtraTransitions < MaxExtraTransitions
    /\ \A i \in 1..Len(transitions[from]) : transitions[from][i].condition = "none"
    /\ transitions' = RegisterAll(transitions, <<Transition(from, to, "flag")>>)
    /\ UNCHANGED <<states, current_state_type, previous_state_type,
                   pending_state_change, shared_flag, last_change, ticked>>

\* StateManager.set_shared_data('flag', value)
SetSharedData(value) ==
    /\ shared_flag # value
    /\ shared_flag' = value
    /\ UNCHANGED <<states, current_state_type, previous_state_type, transitions,
                   pending_state_change, last_change, ticked>>

\* StateManager.change_state: the returned value
ChangeStateAccepts(st) ==
    /\ st \in states
    /\ (current_state_type # "none" => IsTransitionAllowed(current_state_type, st))

\* StateManager.change_state
ChangeState(st) ==
    /\ last_change' = [to |-> st, ret |-> ChangeStateAccepts(st)]
    /\ IF ChangeStateAccepts(st)
       THEN /\ pending_state_change' = st
            /\ ticked' = FALSE
       ELSE UNCHANGED <<pending_state_change, ticked>>
    /\ UNCHANGED <<states, current_state_type, previous_state_type, transitions,
                   shared_flag>>

\* StateManager.return_to_previous_state
ReturnToPreviousState ==
    /\ previous_state_type # "none"
    /\ ChangeState(previous_state_type)

\* StateManager._execute_state_change
ExecuteStateChange(st) ==
    /\ previous_state_type' = current_state_type
    /\ current_state_type' = st

\* StateManager.update
SmUpdate ==
    /\ IF pending_state_change # "none"
       THEN /\ pending_state_change' = "none"
            /\ ExecuteStateChange(pending_state_change)
       ELSE UNCHANGED <<pending_state_change, current_state_type, previous_state_type>>
    /\ UNCHANGED <<states, transitions, shared_flag, last_change, ticked>>

\* StateManager.force_state_change
ForceStateChange(st) ==
    /\ st \in states
    /\ ExecuteStateChange(st)
    /\ UNCHANGED <<states, transitions, pending_state_change, shared_flag,
                   last_change, ticked>>

SmNext ==
    \/ \E st \in StateClasses : RegisterState(st) /\ UNCHANGED <<evVars, tmVars, gmVars, extVars>>
    \/ SetupDefaultTransitions /\ UNCHANGED <<evVars, tmVars, gmVars, extVars>>
    \/ \E c \in ExtraCandidates : RegisterTransition(c[1], c[2]) /\ UNCHANGED <<evVars, tmVars, gmVars, extVars>>
    \/ \E value \in BOOLEAN : SetSharedData(value) /\ UNCHANGED <<evVars, tmVars, gmVars, extVars>>
    \/ \E st \in StateClasses \cup {"settings"} : ChangeState(st) /\ UNCHANGED <<evVars, tmVars, gmVars, extVars>>
    \/ ReturnToPreviousState /\ UNCHANGED <<evVars, tmVars, gmVars, extVars>>
    \/ SmUpdate /\ UNCHANGED <<evVars, tmVars, gmVars, extVars>>
    \/ \E st \in StateClasses : ForceStateChange(st) /\ UNCHANGED <<evVars, tmVars, gmVars, extVars>>


(***************************************************************************)
(* Part III: GameTimer                                                     *)
(***************************************************************************)
\* number of schedule_event calls explored
MaxScheduled == 2
\* game_time explored up to this value (units of 1/60 s)
MaxGameTime == 4

\* frame times handed to update (units of 1/60 s)
DeltaTimes == {0, 1, 2, 3}
\* arguments of set_speed
SpeedArguments == {0, 1, 2, 6}
\* arguments of schedule_event
Delays == {0, 1}
RepeatIntervals == {2}
\* repeat_count: -1 is "infinite"
RepeatCounts == {-1, 1, 2}

Min(a, b) == IF a < b THEN a ELSE b
Max(a, b) == IF a > b THEN a ELSE b

NoPass == [active |-> FALSE, snapshot |-> <<>>, idx |-> 1]

Ids(events) == {events[i].id : i \in 1..Len(events)}

\* the ScheduledEvent object with the given id, wherever it is held
EventOf(events, id) == CHOOSE e \in {events[i] : i \in 1..Len(events)} : e.id = id

SetEvent(events, e) == [i \in 1..Len(events) |-> IF events[i].id = e.id THEN e ELSE events[i]]

TmInit ==
    /\ timer_state = "stopped"
    /\ speed_multiplier = 1
    /\ game_time = 0
    /\ scheduled_events = <<>>
    /\ completed_events = <<>>
    /\ pass = NoPass
    /\ fired = {}

\* code outside the timer calls it only between two passes
TimerIdle == ~pass.active

\* GameTimer.start
TimerStart ==
    /\ TimerIdle
    /\ timer_state # "running"
    /\ game_time' = IF timer_state = "stopped" THEN 0 ELSE game_time
    /\ timer_state' = "running"
    /\ UNCHANGED <<speed_multiplier, scheduled_events, completed_events, pass, fired>>

\* GameTimer.pause
TimerPause ==
    /\ TimerIdle
    /\ timer_state = "running"
    /\ timer_state' = "paused"
    /\ UNCHANGED <<speed_multiplier, game_time, scheduled_events, completed_events,
                   pass, fired>>

\* GameTimer.resume
TimerResume ==
    /\ TimerIdle
    /\ timer_state = "paused"
    /\ timer_state' = "running"
    /\ UNCHANGED <<speed_multiplier, game_time, scheduled_events, completed_events,
                   pass, fired>>

\* GameTimer.stop
TimerStop ==
    /\ TimerIdle
    /\ timer_state # "stopped"
    /\ timer_state' = "stopped"
    /\ UNCHANGED <<speed_multiplier, game_time, scheduled_events, completed_events,
                   pass, fired>>

\* GameTimer.set_speed
SetSpeed(multiplier) ==
    /\ TimerIdle
    /\ speed_multiplier' = Max(0, Min(5, multiplier))
    /\ speed_multiplier' # speed_multiplier
    /\ UNCHANGED <<timer_state, game_time, scheduled_events, completed_events,
                   pass, fired>>

NextEventId == Len(scheduled_events) + Len(completed_events) + 1

\* the ScheduledEvent built by schedule_event
NewEvent(delay, repeats, repeat_interval, repeat_count) ==
    [id |-> NextEventId, target_time |-> game_time + delay,
     repeats |-> repeats, repeat_interval |-> repeat_interval,
     repeat_count |-> repeat_count, is_active |-> TRUE]

\* GameTimer.schedule_event
ScheduleEvent(delay, repeats, repeat_interval, repeat_count) ==
    /\ TimerIdle
    /\ NextEventId <= MaxScheduled
    /\ scheduled_events' = Append(scheduled_events,
                                  NewEvent(delay, repeats, repeat_interval, repeat_count))
    /\ UNCHANGED <<timer_state, speed_multiplier, game_time, completed_events,
                   pass, fired>>

\* GameTimer.cancel_event, for an event the scheduler still holds
CancelEvent(id) ==
    /\ TimerIdle
    /\ id \in Ids(scheduled_events)
    /\ EventOf(scheduled_events, id).is_active
    /\ scheduled_events' = SetEvent(scheduled_events,
                                    [EventOf(scheduled_events, id) EXCEPT !.is_active = FALSE])
    /\ UNCHANGED <<timer_state, speed_multiplier, game_time, completed_events,
                   pass, fired>>

\* ScheduledEvent.should_execute
ShouldExecute(e, current_time) == e.is_active /\ current_time >= e.target_time

\* the repetition handling with the count ignored: a repeating event never ends
AfterExecuteForever(e, current_time) ==
    IF e.repeats
    THEN [e EXCEPT !.target_time = current_time + e.repeat_interval]
    ELSE [e EXCEPT !.is_active = FALSE]

\* ScheduledEvent.execute, after the callback: the repetition handling
AfterExecute(e, current_time) ==
    IF e.repeats /\ e.repeat_count # 0
    THEN [e EXCEPT !.target_time = current_time + e.repeat_interval,
                   !.repeat_count = IF @ > 0 THEN @ - 1 ELSE @,
                   !.is_active = IF e.repeat_count = 1 THEN FALSE ELSE @]
    ELSE [e EXCEPT !.is_active = FALSE]

\* GameTimer.update up to the call of _process_scheduled_events
TimerUpdate(delta_time) ==
    /\ TimerIdle
    /\ IF timer_state # "running"
       THEN UNCHANGED <<game_time, pass, fired>>
       ELSE /\ game_time + delta_time * speed_multiplier <= MaxGameTime
            /\ game_time' = game_time + delta_time * speed_multiplier
            /\ fired' = {}
            /\ pass' = IF scheduled_events = <<>> THEN NoPass
                       ELSE [active |-> TRUE,
                             snapshot |-> [i \in 1..Len(scheduled_events) |-> scheduled_events[i].id],
                             idx |-> 1]
    /\ UNCHANGED <<timer_state, speed_multiplier, scheduled_events, completed_events>>

PassAfter(p) == IF p.idx >= Len(p.snapshot) THEN NoPass ELSE [p EXCEPT !.idx = @ + 1]

\* one iteration of the loop of _process_scheduled_events for an event that
\* is not executed
PassSkip ==
    /\ pass.active
    /\ ~ShouldExecute(EventOf(scheduled_events, pass.snapshot[pass.idx]), game_time)
    /\ pass' = PassAfter(pass)
    /\ UNCHANGED <<timer_state, speed_multiplier, game_time, scheduled_events,
                   completed_events, fired>>

\* the scheduler after the callback of an executed event: the callback may
\* cancel one event of the scheduler (cancelled = 0: none) or schedule a
\* one-shot event without delay
AfterCallback(events, cancelled, schedules) ==
    IF schedules THEN Append(events, NewEvent(0, FALSE, 0, 1))
    ELSE IF cancelled = 0 THEN events
    ELSE SetEvent(events, [EventOf(events, cancelled) EXCEPT !.is_active = FALSE])

\* one iteration of the loop for an event that is executed
PassExecute(cancelled, schedules) ==
    /\ pass.active
    /\ LET id == pass.snapshot[pass.idx]
           evs == AfterCallback(scheduled_events, cancelled, schedules)
           e1 == AfterExecute(EventOf(evs, id), game_time)
       IN /\ ShouldExecute(EventOf(scheduled_events, id), game_time)
          /\ IF schedules THEN cancelled = 0 /\ NextEventId <= MaxScheduled
             ELSE cancelled = 0 \/ (cancelled \in Ids(scheduled_events)
                                    /\ EventOf(scheduled_events, cancelled).is_active)
          /\ fired' = fired \cup {id}
          /\ IF e1.is_active
             THEN /\ scheduled_events' = SetEvent(evs, e1)
                  /\ UNCHANGED completed_events
             ELSE /\ scheduled_events' = SelectSeq(evs, LAMBDA x : x.id # id)
                  /\ completed_events' = Append(completed_events, e1)
    /\ pass' = PassAfter(pass)
    /\ UNCHANGED <<timer_state, speed_multiplier, game_time>>

TmNext ==
    \/ TimerStart /\ UNCHANGED <<evVars, smVars, gmVars, extVars>>
    \/ TimerPause /\ UNCHANGED <<evVars, smVars, gmVars, extVars>>
    \/ TimerResume /\ UNCHANGED <<evVars, smVars, gmVars, extVars>>
    \/ TimerStop /\ UNCHANGED <<evVars, smVars, gmVars, extVars>>
    \/ \E m \in SpeedArguments : SetSpeed(m) /\ UNCHANGED <<evVars, smVars, gmVars, extVars>>
    \/ \E d \in Delays, c \in RepeatCounts :
           ScheduleEvent(d, FALSE, 0, c) /\ UNCHANGED <<evVars, smVars, gmVars, extVars>>
    \/ \E d \in Delays, r \in RepeatIntervals, c \in RepeatCounts :
           ScheduleEvent(d, TRUE, r, c) /\ UNCHANGED <<evVars, smVars, gmVars, extVars>>
    \/ \E id \in 1..MaxScheduled : CancelEvent(id) /\ UNCHANGED <<evVars, smVars, gmVars, extVars>>
    \/ \E dt \in DeltaTimes : TimerUpdate(dt) /\ UNCHANGED <<evVars, smVars, gmVars, extVars>>
    \/ PassSkip /\ UNCHANGED <<evVars, smVars, gmVars, extVars>>
    \/ \E c \in 0..MaxScheduled, n \in BOOLEAN : PassExecute(c, n) /\ UNCHANGED <<evVars, smVars, gmVars, extVars>>


(***************************************************************************)
(* Part IV: Game                                                           *)
(***************************************************************************)
\* the Game object before _setup_states and _setup_event_handlers
GmInit ==
    /\ is_running = TRUE
    /\ is_paused = FALSE
    /\ debug_mode = FALSE

\* 1/30 s, the cap of on_update on delta_time (units of 1/60 s)
DeltaCap == 2

\* the state manager at the end of Game.__init__: _setup_states registers the
\* four state classes and requests the main menu; no transition is registered
GameSmInit ==
    /\ states = StateClasses
    /\ current_state_type = "none"
    /\ previous_state_type = "none"
    /\ transitions = [f \in StateTypes |-> <<>>]
    /\ pending_state_change = "main_menu"
    /\ shared_flag = FALSE
    /\ last_change = [to |-> "main_menu", ret |-> TRUE]
    /\ ticked = FALSE

\* Game.on_update; the event queues are empty (every emit of the game is made
\* with immediate=False outside a dispatch) and no state is current
OnUpdate(dt) ==
    /\ is_running
    /\ TimerUpdate(IF is_paused THEN 0 ELSE Min(dt, DeltaCap))
    /\ ticked' = TRUE
    /\ UNCHANGED <<states, current_state_type, previous_state_type, transitions,
                   pending_state_change, shared_flag, last_change>>
    /\ UNCHANGED <<evVars, gmVars, extVars>>

\* Game._on_game_pause, the handler of 'game_pause'
OnGamePause ==
    /\ is_paused' = TRUE
    /\ UNCHANGED <<is_running, debug_mode, evVars, smVars, tmVars, extVars>>

\* Game._on_game_resume, the handler of 'game_resume'
OnGameResume ==
    /\ is_paused' = FALSE
    /\ UNCHANGED <<is_running, debug_mode, evVars, smVars, tmVars, extVars>>

\* Game._on_game_quit, the handler of 'game_quit'
OnGameQuit ==
    /\ is_running' = FALSE
    /\ UNCHANGED <<is_paused, debug_mode, evVars, smVars, tmVars, extVars>>

\* Game._on_toggle_debug, the handler of 'toggle_debug' (key F1)
OnToggleDebug ==
    /\ debug_mode' = ~debug_mode
    /\ UNCHANGED <<is_running, is_paused, evVars, smVars, tmVars, extVars>>

\* Game.on_key_press with ESCAPE
OnKeyEscape ==
    /\ is_paused' = IF current_state_type = "gameplay" THEN TRUE
                    ELSE IF current_state_type = "pause" THEN FALSE
                    ELSE is_paused
    /\ UNCHANGED <<is_running, debug_mode, evVars, smVars, tmVars, extVars>>

\* BaseState.start_game, pause_game, resume_game, return_to_menu, game_over
\* and open_options: each calls state_manager.change_state
RequestState(st) ==
    /\ ChangeState(st)
    /\ UNCHANGED <<evVars, tmVars, gmVars, extVars>>

GameNext ==
    \/ \E dt \in DeltaTimes : OnUpdate(dt)
    \/ OnGamePause
    \/ OnGameResume
    \/ OnGameQuit
    \/ OnToggleDebug
    \/ OnKeyEscape
    \/ \E st \in StateClasses \cup {"settings"} : RequestState(st)

(***************************************************************************)
(* Part V: Grid                                                            *)
(***************************************************************************)
\* class TileType
EMPTY == 0
PATH == 1
WALL == 2
SPAWN == 3
BASE == 4
DECORATION == 5
BUILDABLE == 6
WATER == 7
BRIDGE == 8

\* float('inf'), the movement cost of water
Infinity == 1000

\* the grid explored for the mutations: GridWidth x GridHeight cells
GridWidth == 2
GridHeight == 1

\* the tile kinds, movement costs and elevations handed to the mutations
TileKinds == {EMPTY, PATH, WALL, WATER}
MovementCosts == {1, 2}
Elevations == {0, 1}

Cells(w, h) == (0..(w - 1)) \X (0..(h - 1))

\* Grid.is_valid_position
IsValidPosition(x, y) == 0 <= x /\ x < width /\ 0 <= y /\ y < height

\* TileProperties.__post_init__
PostInit(p) ==
    IF p.tile_type = WALL
    THEN [p EXCEPT !.is_walkable = FALSE, !.is_buildable = FALSE]
    ELSE IF p.tile_type \in {PATH, SPAWN, BASE, DECORATION}
    THEN [p EXCEPT !.is_buildable = FALSE]
    ELSE IF p.tile_type = WATER
    THEN [p EXCEPT !.is_walkable = FALSE, !.is_buildable = FALSE,
                   !.movement_cost = Infinity]
    ELSE p

\* TileProperties(tile_type, is_walkable, is_buildable, movement_cost, elevation)
TileProperties(tile_type, is_walkable, is_buildable, movement_cost, elevation) ==
    PostInit([tile_type |-> tile_type, is_walkable |-> is_walkable,
              is_buildable |-> is_buildable, movement_cost |-> movement_cost,
              elevation |-> elevation])

\* TileProperties(tile_type=...)
DefaultProperties(tile_type) == TileProperties(tile_type, TRUE, TRUE, 1, 0)

\* a dict with one more item
Put(dict, key, value) ==
    [k \in DOMAIN dict \cup {key} |-> IF k = key THEN value ELSE dict[k]]

\* Grid.__init__(w, h)
GridInitOf(w, h) ==
    /\ width = w
    /\ height = h
    /\ tiles = [c \in Cells(w, h) |-> EMPTY]
    /\ tile_properties = <<>>
    /\ assigned = {}

GridInit == GridInitOf(GridWidth, GridHeight)

\* Grid.set_tile
SetTile(x, y, tile_type) ==
    /\ IsValidPosition(x, y)
    /\ tiles' = [tiles EXCEPT ![<<x, y>>] = tile_type]
    /\ LET old == IF <<x, y>> \in DOMAIN tile_properties
                  THEN tile_properties[<<x, y>>]
                  ELSE DefaultProperties(EMPTY)
       IN tile_properties' = Put(tile_properties, <<x, y>>,
                                 [old EXCEPT !.tile_type = tile_type])
    /\ UNCHANGED <<width, height, assigned>>

\* the dict after Grid.get_tile_properties(x, y), which creates a missing item
PropertiesAfterGet(props, kinds, c) ==
    IF c \in DOMAIN props THEN props ELSE Put(props, c, DefaultProperties(kinds[c]))

\* what the queries of the grid answer for a cell: get_tile, is_walkable,
\* is_buildable, get_movement_cost and the elevation
CellView(kinds, props, c) ==
    LET p == PropertiesAfterGet(props, kinds, c)[c]
    IN [tile_type |-> kinds[c], is_walkable |-> p.is_walkable,
        is_buildable |-> p.is_buildable, movement_cost |-> p.movement_cost,
        elevation |-> p.elevation]

\* Grid.get_tile_properties, is_walkable, is_buildable and get_movement_cost
\* on a cell that has no item yet
GetTileProperties(x, y) ==
    /\ IsValidPosition(x, y)
    /\ <<x, y>> \notin DOMAIN tile_properties
    /\ tile_properties' = PropertiesAfterGet(tile_properties, tiles, <<x, y>>)
    /\ UNCHANGED <<width, height, tiles, assigned>>

\* Grid.set_tile_properties with a newly constructed TileProperties
SetTileProperties(x, y, properties) ==
    /\ IsValidPosition(x, y)
    /\ tile_properties' = Put(tile_properties, <<x, y>>, properties)
    /\ tiles' = [tiles EXCEPT ![<<x, y>>] = properties.tile_type]
    /\ assigned' = assigned \ {<<x, y>>}
    /\ UNCHANGED <<width, height>>

\* grid.get_tile_properties(x, y).is_walkable = w; .is_buildable = b
AssignFlags(x, y, w, b) ==
    /\ IsValidPosition(x, y)
    /\ LET props == PropertiesAfterGet(tile_properties, tiles, <<x, y>>)
       IN tile_properties' = [props EXCEPT ![<<x, y>>].is_walkable = w,
                                           ![<<x, y>>].is_buildable = b]
    /\ tile_properties' # tile_properties
    /\ assigned' = assigned \cup {<<x, y>>}
    /\ UNCHANGED <<width, height, tiles>>

\* Grid.to_dict: the keys "x,y" are the cells; rotation, variant and
\* custom_data are not modelled
ToDict(w, h, kinds, props) ==
    [width |-> w, height |-> h, tiles |-> kinds,
     properties |-> [c \in DOMAIN props |->
                        [tile_type |-> props[c].tile_type,
                         is_walkable |-> props[c].is_walkable,
                         is_buildable |-> props[c].is_buildable,
                         movement_cost |-> props[c].movement_cost,
                         elevation |-> props[c].elevation]]]

\* Grid.from_dict: every item is rebuilt by the TileProperties constructor
FromDict(data) ==
    [width |-> data.width, height |-> data.height, tiles |-> data.tiles,
     tile_properties |-> [c \in DOMAIN data.properties |->
                             TileProperties(data.properties[c].tile_type,
                                            data.properties[c].is_walkable,
                                            data.properties[c].is_buildable,
                                            data.properties[c].movement_cost,
                                            data.properties[c].elevation)]]

\* grid = Grid.from_dict(grid.to_dict())
SaveAndLoad ==
    /\ LET g == FromDict(ToDict(width, height, tiles, tile_properties))
       IN /\ tiles' = g.tiles
          /\ tile_properties' = g.tile_properties
          /\ tile_properties' # tile_properties
    /\ assigned' = {}
    /\ UNCHANGED <<width, height>>

GridNext ==
    \/ \E x \in 0..(GridWidth - 1), y \in 0..(GridHeight - 1), k \in TileKinds :
           SetTile(x, y, k) /\ UNCHANGED <<evVars, smVars, tmVars, gmVars, pfVars, emVars, mgVars, unitVars>>
    \/ \E x \in 0..(GridWidth - 1), y \in 0..(GridHeight - 1) :
           GetTileProperties(x, y) /\ UNCHANGED <<evVars, smVars, tmVars, gmVars, pfVars, emVars, mgVars, unitVars>>
    \/ \E x \in 0..(GridWidth - 1), y \in 0..(GridHeight - 1), k \in TileKinds,
          w \in BOOLEAN, b \in BOOLEAN, m \in MovementCosts, e \in Elevations :
           SetTileProperties(x, y, TileProperties(k, w, b, m, e))
               /\ UNCHANGED <<evVars, smVars, tmVars, gmVars, pfVars, emVars, mgVars, unitVars>>
    \/ \E x \in 0..(GridWidth - 1), y \in 0..(GridHeight - 1), w \in BOOLEAN, b \in BOOLEAN :
           AssignFlags(x, y, w, b) /\ UNCHANGED <<evVars, smVars, tmVars, gmVars, pfVars, emVars, mgVars, unitVars>>
    \/ SaveAndLoad /\ UNCHANGED <<evVars, smVars, tmVars, gmVars, pfVars, emVars, mgVars, unitVars>>

(***************************************************************************)
(* Part VI: Pathfinder                                                     *)
(***************************************************************************)
\* the grid explored for the searches: PathWidth x PathHeight cells
PathWidth == 5
PathHeight == 2
\* number of find_path calls explored
MaxSearches == 4
\* the largest cache_max_size explored
MaxCacheSize == 2
\* PathfindingConstraints.max_search_nodes by default
DefaultMaxSearchNodes == 10000

\* the sets of wall cells the searches are run on
Layouts == {{}, {<<1, 0>>}, {<<3, 1>>}}
\* the start and goal cells handed to find_path
Endpoints == {<<4, 1>>, <<0, 0>>}
Algorithms == {"a_star", "dijkstra"}

\* a grid whose cells all have their TileProperties, with walls at the given cells
PathGridInit ==
    \E walls \in Layouts :
        /\ width = PathWidth
        /\ height = PathHeight
        /\ tiles = [c \in Cells(PathWidth, PathHeight) |-> IF c \in walls THEN WALL ELSE EMPTY]
        /\ tile_properties = [c \in Cells(PathWidth, PathHeight) |->
                                 DefaultProperties(IF c \in walls THEN WALL ELSE EMPTY)]
        /\ assigned = {}

NoResult == [path |-> <<>>, cost |-> Infinity, nodes_explored |-> 0, success |-> FALSE]

\* Pathfinder.__init__
PfInit ==
    /\ path_cache = <<>>
    /\ cache_max_size = MaxCacheSize
    /\ pf_stats = [cache_hits |-> 0, cache_misses |-> 0, total_searches |-> 0]
    /\ last_result = NoResult
    /\ recency = <<>>

Abs(n) == IF n < 0 THEN 0 - n ELSE n

\* Pathfinder._manhattan_distance and the ZERO heuristic
Heuristic(heuristic, a, b) ==
    IF heuristic = "manhattan" THEN Abs(a[1] - b[1]) + Abs(a[2] - b[2]) ELSE 0

\* PathNode; path is the chain of parents, from the start node
PathNode(pos, g_cost, h_cost, path) ==
    [pos |-> pos, g_cost |-> g_cost, h_cost |-> h_cost, f_cost |-> g_cost + h_cost,
     path |-> path]

\* PathNode.__lt__
NodeLess(a, b) ==
    IF a.f_cost = b.f_cost THEN a.h_cost < b.h_cost ELSE a.f_cost < b.f_cost

\* heapq._siftdown (positions count from 0)
RECURSIVE SiftDown(_, _, _, _)
SiftDown(heap, newitem, startpos, pos) ==
    IF pos > startpos /\ NodeLess(newitem, heap[((pos - 1) \div 2) + 1])
    THEN SiftDown([heap EXCEPT ![pos + 1] = heap[((pos - 1) \div 2) + 1]],
                  newitem, startpos, (pos - 1) \div 2)
    ELSE [heap EXCEPT ![pos + 1] = newitem]

\* heapq.heappush
HeapPush(heap, item) == SiftDown(Append(heap, item), item, 0, Len(heap))

\* heapq._siftup
RECURSIVE SiftUp(_, _, _)
SiftUp(heap, newitem, pos) ==
    LET childpos == 2 * pos + 1
        rightpos == childpos + 1
        c == IF rightpos < Len(heap) /\ ~NodeLess(heap[childpos + 1], heap[rightpos + 1])
             THEN rightpos ELSE childpos
    IN IF childpos < Len(heap)
       THEN SiftUp([heap EXCEPT ![pos + 1] = heap[c + 1]], newitem, c)
       ELSE SiftDown([heap EXCEPT ![pos + 1] = newitem], newitem, 0, pos)

\* heapq.heappop: the item and the heap left
HeapPop(heap) ==
    LET lastelt == heap[Len(heap)]
        rest == SubSeq(heap, 1, Len(heap) - 1)
    IN IF rest = <<>> THEN [item |-> lastelt, heap |-> <<>>]
       ELSE [item |-> rest[1], heap |-> SiftUp([rest EXCEPT ![1] = lastelt], lastelt, 0)]

\* Pathfinder._get_movement_cost with the default constraints
GetMovementCost(to) ==
    IF ~IsValidPosition(to[1], to[2]) THEN 0 - 1
    ELSE IF ~CellView(tiles, tile_properties, to).is_walkable THEN 0 - 1
    ELSE CellView(tiles, tile_properties, to).movement_cost

\* Pathfinder._get_neighbors without diagonals: positions in the order of
\* orthogonal_dirs
GetNeighbors(pos) ==
    SelectSeq(<<<<pos[1], pos[2] + 1>>, <<pos[1] + 1, pos[2]>>,
                <<pos[1], pos[2] - 1>>, <<pos[1] - 1, pos[2]>>>>,
              LAMBDA n : GetMovementCost(n) >= 0)

InOpenSet(open, pos) == \E i \in 1..Len(open) : open[i].pos = pos

\* the loop over the neighbours of current_node in _a_star
RECURSIVE Explore(_, _, _, _, _)
Explore(st, current, neighbors, goal, heuristic) ==
    IF neighbors = <<>> THEN st
    ELSE LET n == Head(neighbors)
             tentative == current.g_cost + GetMovementCost(n)
             node == PathNode(n, tentative, Heuristic(heuristic, n, goal),
                              Append(current.path, n))
             better == n \notin DOMAIN st.g_scores \/ tentative < st.g_scores[n]
             next == IF n \in st.closed \/ ~better THEN st
                     ELSE [st EXCEPT !.g_scores = Put(st.g_scores, n, tentative),
                                     !.open = IF InOpenSet(st.open, n) THEN @
                                              ELSE HeapPush(@, node)]
         IN Explore(next, current, Tail(neighbors), goal, heuristic)

\* the while loop of _a_star
RECURSIVE AStarLoop(_, _, _, _)
AStarLoop(st, goal, heuristic, max_nodes) ==
    IF st.open = <<>> \/ st.nodes_explored >= max_nodes
    THEN [NoResult EXCEPT !.nodes_explored = st.nodes_explored]
    ELSE LET popped == HeapPop(st.open)
             current == popped.item
         IN IF current.pos = goal
            THEN [path |-> current.path, cost |-> current.g_cost,
                  nodes_explored |-> st.nodes_explored, success |-> TRUE]
            ELSE AStarLoop(Explore([st EXCEPT !.open = popped.heap,
                                               !.closed = @ \cup {current.pos},
                                               !.nodes_explored = @ + 1],
                                   current, GetNeighbors(current.pos), goal, heuristic),
                           goal, heuristic, max_nodes)

\* Pathfinder._a_star
AStar(start, goal, heuristic, max_nodes) ==
    AStarLoop([open |-> <<PathNode(start, 0, Heuristic(heuristic, start, goal), <<start>>)>>,
               closed |-> {},
               g_scores |-> [p \in {start} |-> 0],
               nodes_explored |-> 0],
              goal, heuristic, max_nodes)

\* Pathfinder._dijkstra
Dijkstra(start, goal, heuristic, max_nodes) == AStar(start, goal, "zero", max_nodes)

\* Pathfinder._validate_positions
ValidatePositions(start, goal) ==
    /\ IsValidPosition(start[1], start[2])
    /\ IsValidPosition(goal[1], goal[2])
    /\ CellView(tiles, tile_properties, goal).is_walkable

\* Pathfinder._generate_cache_key; allow_diagonal is False
GenerateCacheKey(start, goal, algorithm, heuristic, max_nodes) ==
    <<start, goal, algorithm, heuristic, FALSE>>

CacheKeys(cache) == {cache[i].key : i \in 1..Len(cache)}

CacheGet(cache, key) == (CHOOSE e \in {cache[i] : i \in 1..Len(cache)} : e.key = key).result

\* Pathfinder._cache_result, for a full cache that is not empty
CacheResult(cache, max_size, key, result) ==
    Append(IF Len(cache) >= max_size THEN Tail(cache) ELSE cache,
           [key |-> key, result |-> result])

\* the keys of the cache in the order of their latest use
Touch(order, key, cache) ==
    Append(SelectSeq(order, LAMBDA k : k # key /\ k \in CacheKeys(cache)), key)

\* Pathfinder.find_path with the Manhattan heuristic
FindPath(start, goal, algorithm, max_nodes) ==
    /\ pf_stats.cache_hits + pf_stats.cache_misses < MaxSearches
    /\ LET key == GenerateCacheKey(start, goal, algorithm, "manhattan", max_nodes)
           result == IF algorithm = "dijkstra"
                     THEN Dijkstra(start, goal, "manhattan", max_nodes)
                     ELSE AStar(start, goal, "manhattan", max_nodes)
       IN IF ~ValidatePositions(start, goal)
          THEN /\ last_result' = NoResult
               /\ UNCHANGED <<path_cache, pf_stats, recency>>
          ELSE IF key \in CacheKeys(path_cache)
          THEN /\ pf_stats' = [pf_stats EXCEPT !.cache_hits = @ + 1]
               /\ last_result' = CacheGet(path_cache, key)
               /\ recency' = Touch(recency, key, path_cache)
               /\ UNCHANGED path_cache
          ELSE /\ pf_stats' = [pf_stats EXCEPT !.cache_misses = @ + 1,
                                               !.total_searches = @ + 1]
               /\ last_result' = result
               /\ IF result.success
                  THEN /\ path_cache' = CacheResult(path_cache, cache_max_size, key, result)
                       /\ recency' = Touch(recency, key, path_cache')
                  ELSE UNCHANGED <<path_cache, recency>>
    /\ UNCHANGED cache_max_size

RECURSIVE DropOldest(_, _)
DropOldest(cache, max_size) ==
    IF Len(cache) > max_size THEN DropOldest(Tail(cache), max_size) ELSE cache

\* Pathfinder.set_cache_max_size with a positive size
SetCacheMaxSize(max_size) ==
    /\ max_size # cache_max_size
    /\ cache_max_size' = max_size
    /\ path_cache' = DropOldest(path_cache, max_size)
    /\ recency' = SelectSeq(recency, LAMBDA k : k \in CacheKeys(path_cache'))
    /\ UNCHANGED <<pf_stats, last_result>>

\* Pathfinder.clear_cache
ClearCache ==
    /\ path_cache # <<>>
    /\ path_cache' = <<>>
    /\ recency' = <<>>
    /\ UNCHANGED <<cache_max_size, pf_stats, last_result>>

PfNext ==
    \/ \E start \in Endpoints, goal \in Endpoints, a \in Algorithms,
          m \in {0, DefaultMaxSearchNodes} :
           FindPath(start, goal, a, m) /\ UNCHANGED <<evVars, smVars, tmVars, gmVars, grVars, emVars, mgVars, unitVars>>
    \/ \E n \in 1..MaxCacheSize :
           SetCacheMaxSize(n) /\ UNCHANGED <<evVars, smVars, tmVars, gmVars, grVars, emVars, mgVars, unitVars>>
    \/ ClearCache /\ UNCHANGED <<evVars, smVars, tmVars, gmVars, grVars, emVars, mgVars, unitVars>>

(***************************************************************************)
(* Part VII: EntityManager                                                 *)
(***************************************************************************)
\* number of Entity objects explored; entity e has the id e
MaxEntities == 2
\* longest entities_to_add and entities_to_remove explored
MaxPending == 2
\* number of registrations explored (stats['total_created'])
MaxCreated == 3

EntityIds == 1..MaxEntities
Tags == {"t"}
EntityTypes == {"Entity", "Enemy"}

\* type(entity)
TypeOf(e) == IF e = 1 THEN "Entity" ELSE "Enemy"

\* entity.get_position()
PositionOf(e) == <<e, 0>>

Range(seq) == {seq[i] : i \in 1..Len(seq)}

\* EntityManager.__init__ and Entity.__init__
EmInit ==
    /\ entities = {}
    /\ entities_by_tag = [t \in Tags |-> {}]
    /\ entities_by_type = [ty \in EntityTypes |-> {}]
    /\ entities_to_add = <<>>
    /\ entities_to_remove = <<>>
    /\ em_stats = [total_created |-> 0, total_destroyed |-> 0, active_entities |-> 0]
    /\ tags = [e \in EntityIds |-> {}]
    /\ is_destroyed = [e \in EntityIds |-> FALSE]
    /\ em_refused = {}

\* the manager and the entities as one record, for the steps of a handler
EmState ==
    [entities |-> entities, entities_by_tag |-> entities_by_tag,
     entities_by_type |-> entities_by_type, em_stats |-> em_stats, tags |-> tags]

\* EntityManager._add_entity_immediate
AddEntityImmediate(st, e) ==
    IF e \in st.entities THEN st
    ELSE [st EXCEPT !.entities = @ \cup {e},
                    !.entities_by_tag = [t \in Tags |-> IF t \in st.tags[e] THEN @[t] \cup {e}
                                                        ELSE @[t]],
                    !.entities_by_type[TypeOf(e)] = @ \cup {e},
                    !.em_stats.total_created = @ + 1,
                    !.em_stats.active_entities = @ + 1]

\* EntityManager._remove_entity_immediate, entity.cleanup() included
RemoveEntityImmediate(st, e) ==
    IF e \notin st.entities THEN st
    ELSE [st EXCEPT !.entities = @ \ {e},
                    !.entities_by_tag = [t \in Tags |-> IF t \in st.tags[e] THEN @[t] \ {e}
                                                        ELSE @[t]],
                    !.entities_by_type[TypeOf(e)] = @ \ {e},
                    !.tags[e] = {},
                    !.em_stats.total_destroyed = @ + 1,
                    !.em_stats.active_entities = @ - 1]

\* the variables of the manager take the values of the record
EmBecomes(st) ==
    /\ entities' = st.entities
    /\ entities_by_tag' = st.entities_by_tag
    /\ entities_by_type' = st.entities_by_type
    /\ em_stats' = st.em_stats
    /\ tags' = st.tags

\* Entity.add_tag
AddTag(e, t) ==
    /\ t \notin tags[e]
    /\ tags' = [tags EXCEPT ![e] = @ \cup {t}]
    /\ UNCHANGED <<entities, entities_by_tag, entities_by_type, entities_to_add,
                   entities_to_remove, em_stats, is_destroyed, em_refused>>

\* Entity.remove_tag
RemoveTag(e, t) ==
    /\ t \in tags[e]
    /\ tags' = [tags EXCEPT ![e] = @ \ {t}]
    /\ UNCHANGED <<entities, entities_by_tag, entities_by_type, entities_to_add,
                   entities_to_remove, em_stats, is_destroyed, em_refused>>

\* Entity.destroy, for an entity without parent and children
Destroy(e) ==
    /\ ~is_destroyed[e]
    /\ is_destroyed' = [is_destroyed EXCEPT ![e] = TRUE]
    /\ UNCHANGED <<entities, entities_by_tag, entities_by_type, entities_to_add,
                   entities_to_remove, em_stats, tags, em_refused>>

\* EntityManager.add_entity
AddEntity(e, immediate) ==
    /\ em_stats.total_created < MaxCreated
    /\ IF immediate
       THEN /\ EmBecomes(AddEntityImmediate(EmState, e))
            /\ UNCHANGED entities_to_add
       ELSE /\ Len(entities_to_add) < MaxPending
            /\ entities_to_add' = Append(entities_to_add, e)
            /\ UNCHANGED <<entities, entities_by_tag, entities_by_type, em_stats, tags>>
    /\ UNCHANGED <<entities_to_remove, is_destroyed, em_refused>>

\* EntityManager.remove_entity, for an id the manager holds or has queued for
\* addition; for an id it does not hold the call returns False and changes
\* nothing in the manager
RemoveEntity(id, immediate) ==
    /\ id \in entities \/ id \in Range(entities_to_add)
    /\ IF id \notin entities
       THEN /\ id \notin em_refused
            /\ em_refused' = em_refused \cup {id}
            /\ UNCHANGED <<entities, entities_by_tag, entities_by_type, em_stats, tags,
                           entities_to_remove>>
       ELSE /\ IF immediate
               THEN /\ EmBecomes(RemoveEntityImmediate(EmState, id))
                    /\ UNCHANGED entities_to_remove
               ELSE /\ Len(entities_to_remove) < MaxPending
                    /\ entities_to_remove' = Append(entities_to_remove, id)
                    /\ UNCHANGED <<entities, entities_by_tag, entities_by_type,
                                   em_stats, tags>>
            /\ UNCHANGED em_refused
    /\ UNCHANGED <<entities_to_add, is_destroyed>>

\* the calls of _add_entity_immediate, in the order of the list
RECURSIVE AddAll(_, _)
AddAll(st, es) == IF es = <<>> THEN st ELSE AddAll(AddEntityImmediate(st, Head(es)), Tail(es))

\* the calls of _remove_entity_immediate, in the order of the list
RECURSIVE RemoveEach(_, _)
RemoveEach(st, ids) ==
    IF ids = <<>> THEN st ELSE RemoveEach(RemoveEntityImmediate(st, Head(ids)), Tail(ids))

\* a set as a list, smallest first
RECURSIVE SetToSeq(_)
SetToSeq(S) ==
    IF S = {} THEN <<>>
    ELSE LET m == CHOOSE x \in S : \A y \in S : x <= y
         IN <<m>> \o SetToSeq(S \ {m})

\* EntityManager._process_pending_operations
ProcessPendingOperations(st, to_add, to_remove) ==
    RemoveEach(AddAll(st, to_add), to_remove)

\* EntityManager._cleanup_destroyed_entities
CleanupDestroyedEntities(st) ==
    RemoveEach(st, SetToSeq({e \in st.entities : is_destroyed[e]}))

\* EntityManager.update_all; the update of an entity changes none of these variables
UpdateAll ==
    /\ entities_to_add # <<>> \/ entities_to_remove # <<>>
          \/ \E e \in entities : is_destroyed[e]
    /\ EmBecomes(CleanupDestroyedEntities(
           ProcessPendingOperations(EmState, entities_to_add, entities_to_remove)))
    /\ entities_to_add' = <<>>
    /\ entities_to_remove' = <<>>
    /\ em_refused' = {}
    /\ UNCHANGED is_destroyed

\* EntityManager.clear_all
ClearAll ==
    /\ entities # {}
    /\ EmBecomes(RemoveEach(EmState, SetToSeq(entities)))
    /\ entities_to_add' = <<>>
    /\ entities_to_remove' = <<>>
    /\ em_refused' = {}
    /\ UNCHANGED is_destroyed

\* EntityManager.get_entity: the id found, or 0 for None
GetEntity(id) == IF id \in entities THEN id ELSE 0

\* EntityManager.get_entities_by_tag
GetEntitiesByTag(t) == entities_by_tag[t]

\* EntityManager.get_entities_by_type
GetEntitiesByType(ty) == entities_by_type[ty]

\* EntityManager.find_entities_in_radius without entity_type
FindEntitiesInRadius(center, radius) ==
    {e \in entities :
        (center[1] - PositionOf(e)[1]) * (center[1] - PositionOf(e)[1])
          + (center[2] - PositionOf(e)[2]) * (center[2] - PositionOf(e)[2])
          <= radius * radius}

EmNext ==
    \/ \E e \in EntityIds, t \in Tags :
           AddTag(e, t) /\ UNCHANGED <<evVars, smVars, tmVars, gmVars, grVars, pfVars, mgVars, unitVars>>
    \/ \E e \in EntityIds, t \in Tags :
           RemoveTag(e, t) /\ UNCHANGED <<evVars, smVars, tmVars, gmVars, grVars, pfVars, mgVars, unitVars>>
    \/ \E e \in EntityIds :
           Destroy(e) /\ UNCHANGED <<evVars, smVars, tmVars, gmVars, grVars, pfVars, mgVars, unitVars>>
    \/ \E e \in EntityIds, immediate \in BOOLEAN :
           AddEntity(e, immediate) /\ UNCHANGED <<evVars, smVars, tmVars, gmVars, grVars, pfVars, mgVars, unitVars>>
    \/ \E id \in EntityIds, immediate \in BOOLEAN :
           RemoveEntity(id, immediate) /\ UNCHANGED <<evVars, smVars, tmVars, gmVars, grVars, pfVars, mgVars, unitVars>>
    \/ UpdateAll /\ UNCHANGED <<evVars, smVars, tmVars, gmVars, grVars, pfVars, mgVars, unitVars>>
    \/ ClearAll /\ UNCHANGED <<evVars, smVars, tmVars, gmVars, grVars, pfVars, mgVars, unitVars>>

(***************************************************************************)
(* Part VIII: MapGenerator (world/map_generator.py)                        *)
(*                                                                         *)
(* generate_map is followed draw by draw: every call of the random module  *)
(* is a choice of the step that makes it.  The list of DecorationElement   *)
(* records, which no tile depends on, is left out, and the theme is the    *)
(* default one, INDUSTRIAL_FACTORY.  The lists main_path and path are sets:*)
(* the order of list(set) is left open, so the cell a branch starts from   *)
(* is any cell of main_path.  Of the sinuous moves of _generate_main_path  *)
(* only those of SinuousRanks are explored, so every behaviour here is one *)
(* of the generator, and not the converse.                                 *)
(***************************************************************************)
\* GRID_CONFIG['GRID_WIDTH'] and GRID_CONFIG['GRID_HEIGHT'] as explored,
\* also the width and height of GenerationParams, whose defaults they are
MapWidth == 6
MapHeight == 3
\* GRID_CONFIG['PATH_WIDTH']
PATH_WIDTH == 2
\* path_complexity of _fix_path_continuity, in hundredths
FixPathComplexity == 10
\* the ranks in possible_moves that random.choice draws in the turns of
\* _generate_main_path explored
SinuousRanks == {2}
\* the shortest main path that gets a branch, and the lengths of a branch
MinBranchedPath == 10
MinBranchLength == 3
MaxBranchLength == 8
\* the smallest zone that is kept
MinZoneSize == 4
\* the numbers of chimneys of the factory theme, and their size
MinChimneys == 2
MaxChimneys == 4
ChimneySize == 3

MapCells == Cells(MapWidth, MapHeight)

\* self.spawn_point = None
None == <<>>

\* self.current_grid = None
NoGrid == [tiles |-> <<>>, tile_properties |-> <<>>]

\* the arguments of generate_map explored, with one branch: a direct path
\* and zones of the default size, and a path as sinuous as can be and zones
\* too small to be kept; path_complexity and decoration_density are in
\* hundredths
ParamsSet ==
    {[path_complexity |-> 0, path_branches |-> 1, min_placement_areas |-> 2,
      placement_area_size |-> 3, decoration_density |-> 60],
     [path_complexity |-> 100, path_branches |-> 1, min_placement_areas |-> 2,
      placement_area_size |-> 1, decoration_density |-> 30]}

\* GenerationParams()
DefaultParams ==
    [path_complexity |-> 50, path_branches |-> 0, min_placement_areas |-> 8,
     placement_area_size |-> 3, decoration_density |-> 30]

\* MapGenerator.__init__
MgInit ==
    /\ mg_pc = "idle"
    /\ params = DefaultParams
    /\ current_grid = NoGrid
    /\ spawn_point = None
    /\ base_point = None
    /\ main_path = {}
    /\ placement_zones = <<>>
    /\ walk_current = None
    /\ walk_path = {}
    /\ iteration = 0
    /\ branch = [current |-> None, path |-> {}, left |-> 0, todo |-> 0]
    /\ attempts = 0
    /\ todo = 0

\* Grid(width, height)
NewGrid == [tiles |-> [c \in MapCells |-> EMPTY], tile_properties |-> <<>>]

\* Grid.get_tile
GetTileOf(g, c) == IF c \in MapCells THEN g.tiles[c] ELSE WALL

\* Grid.set_tile on every cell of a set
SetTilesOf(g, cells, tile_type) ==
    LET valid == cells \cap MapCells
        old == g.tile_properties
    IN [tiles |-> [c \in MapCells |-> IF c \in valid THEN tile_type ELSE g.tiles[c]],
        tile_properties |->
            [c \in DOMAIN old \cup valid |->
                IF c \in valid
                THEN [(IF c \in DOMAIN old THEN old[c] ELSE DefaultProperties(EMPTY))
                         EXCEPT !.tile_type = tile_type]
                ELSE old[c]]]

\* Grid.is_walkable
IsWalkableOf(g, c) == CellView(g.tiles, g.tile_properties, c).is_walkable

\* Grid.get_neighbors without diagonals
NeighborsOf(c) ==
    {n \in MapCells : Abs(n[1] - c[1]) + Abs(n[2] - c[2]) = 1}

\* Grid.get_tiles_of_type, in the order of np.where: row by row
TilesOfType(g, tile_type) == {c \in MapCells : g.tiles[c] = tile_type}

FirstOfType(g, tile_type) ==
    CHOOSE c \in TilesOfType(g, tile_type) :
        \A d \in TilesOfType(g, tile_type) :
            c[2] < d[2] \/ (c[2] = d[2] /\ c[1] <= d[1])

\* the cells visited by Grid._bfs_path when it never meets its end
RECURSIVE BfsVisited(_, _)
BfsVisited(g, visited) ==
    LET more == {n \in MapCells : /\ n \notin visited
                                  /\ IsWalkableOf(g, n)
                                  /\ \E c \in visited : n \in NeighborsOf(c)}
    IN IF more = {} THEN visited ELSE BfsVisited(g, visited \cup more)

\* Grid.find_path_between_types(SPAWN, BASE) returns a path
FindPathBetweenTypes(g) ==
    /\ TilesOfType(g, SPAWN) # {}
    /\ TilesOfType(g, BASE) # {}
    /\ FirstOfType(g, BASE) \in BfsVisited(g, {FirstOfType(g, SPAWN)})

\* MapGenerator._distance_to_path
DistanceToPath(c, path) ==
    IF path = {} THEN Infinity
    ELSE LET ds == {Abs(c[1] - p[1]) + Abs(c[2] - p[2]) : p \in path}
         IN CHOOSE d \in ds : \A e \in ds : d <= e

\* MapGenerator._widen_path
WidenPath(path, w) ==
    IF w <= 1 THEN path
    ELSE path \cup
         {n \in MapCells : \E p \in path :
              Abs(n[1] - p[1]) + Abs(n[2] - p[2]) <= w \div 2}

\* generate_map up to the end of _place_spawn_and_base; a second call
\* starts from _reset_generation_state and a new Grid as the first does
GenerateMap(p) ==
    /\ mg_pc = "idle"
    /\ params' = p
    /\ \E horizontal \in BOOLEAN,
          a \in (MapHeight \div 4)..((3 * MapHeight) \div 4),
          b \in (MapHeight \div 4)..((3 * MapHeight) \div 4),
          c \in (MapWidth \div 4)..((3 * MapWidth) \div 4),
          d \in (MapWidth \div 4)..((3 * MapWidth) \div 4) :
        /\ spawn_point' = IF horizontal THEN <<0, a>> ELSE <<c, 0>>
        /\ base_point' = IF horizontal THEN <<MapWidth - 1, b>> ELSE <<d, MapHeight - 1>>
    /\ current_grid' = SetTilesOf(SetTilesOf(NewGrid, {spawn_point'}, SPAWN),
                                  {base_point'}, BASE)
    /\ main_path' = {}
    /\ placement_zones' = <<>>
    /\ walk_current' = spawn_point'
    /\ walk_path' = {spawn_point'}
    /\ iteration' = 0
    /\ mg_pc' = "main_path"
    /\ UNCHANGED <<branch, attempts, todo>>

\* the params of the running _generate_main_path
PathComplexity ==
    IF mg_pc = "fix_path" THEN FixPathComplexity ELSE params.path_complexity

\* the sign of target - current
Sign(n) == IF n > 0 THEN 1 ELSE IF n < 0 THEN 0 - 1 ELSE 0

\* one move towards the target; coin is the draw of random.choice
MoveToTarget(current, target, coin) ==
    LET dx == Sign(target[1] - current[1])
        dy == Sign(target[2] - current[2])
    IN IF dx # 0 /\ (dy = 0 \/ coin) THEN <<current[1] + dx, current[2]>>
       ELSE IF dy # 0 THEN <<current[1], current[2] + dy>>
       ELSE current

\* possible_moves of _generate_main_path, in the order of the list
PossibleMoves(c) ==
    SelectSeq(<<<<c[1], c[2] + 1>>, <<c[1], c[2] - 1>>,
                <<c[1] + 1, c[2]>>, <<c[1] - 1, c[2]>>>>,
              LAMBDA n : n \in MapCells)

\* one turn of the loop of _generate_main_path
WalkStep ==
    /\ mg_pc \in {"main_path", "fix_path"}
    /\ walk_current # None
    /\ walk_current # base_point
    /\ iteration < MapWidth * MapHeight
    /\ iteration' = iteration + 1
    /\ \/ /\ PathComplexity > 0
          /\ \E rank \in SinuousRanks \cap DOMAIN PossibleMoves(walk_current) :
                 walk_current' = PossibleMoves(walk_current)[rank]
       \/ /\ PathComplexity < 100
          /\ \E coin \in BOOLEAN :
                 walk_current' = MoveToTarget(walk_current, base_point, coin)
    /\ walk_path' = walk_path \cup {walk_current'}
    /\ UNCHANGED <<mg_pc, params, current_grid, spawn_point, base_point, main_path,
                   placement_zones, branch, attempts, todo>>

\* the first corner far enough from the path, if there is one
EmergencyCorners(path) ==
    SelectSeq(<<<<2, 2>>, <<MapWidth - 3, 2>>, <<2, MapHeight - 3>>,
                <<MapWidth - 3, MapHeight - 3>>>>,
              LAMBDA c : DistanceToPath(c, path) >= 2)

EmergencyZone(c) ==
    {c, <<c[1] + 1, c[2]>>, <<c[1], c[2] + 1>>, <<c[1] + 1, c[2] + 1>>}

\* the zones added by _add_emergency_placement_zones
RECURSIVE Repeat(_, _)
Repeat(zone, n) == IF n <= 0 THEN <<>> ELSE <<zone>> \o Repeat(zone, n - 1)

\* _validate_and_fix_map after the check of the path: the map it leaves
AfterValidation(g, path, zones) ==
    LET few == Len(zones) < params.min_placement_areas \div 2
        corners == EmergencyCorners(path)
        add == few /\ corners # <<>>
        g1 == IF add THEN SetTilesOf(g, EmergencyZone(corners[1]), BUILDABLE) ELSE g
        zones1 == IF add
                  THEN zones \o Repeat(EmergencyZone(corners[1]),
                                       params.min_placement_areas - Len(zones))
                  ELSE zones
        forced == base_point \notin path
    IN [grid |-> IF forced THEN SetTilesOf(g1, {base_point}, PATH) ELSE g1,
        main_path |-> IF forced THEN path \cup {base_point} ELSE path,
        placement_zones |-> zones1]

\* the end of _generate_main_path, and what its caller does next
WalkEnd ==
    /\ mg_pc \in {"main_path", "fix_path"}
    /\ walk_current # None
    /\ walk_current = base_point \/ iteration >= MapWidth * MapHeight
    /\ LET widened == WidenPath(walk_path, PATH_WIDTH)
           g == SetTilesOf(current_grid, widened \ {spawn_point, base_point}, PATH)
       IN IF mg_pc = "main_path"
          THEN /\ main_path' = widened
               /\ current_grid' = g
               /\ placement_zones' = placement_zones
               /\ mg_pc' = IF params.path_branches > 0 THEN "branches" ELSE "zones"
               /\ branch' = [branch EXCEPT !.todo = params.path_branches, !.left = 0]
          ELSE LET r == AfterValidation(g, widened, placement_zones)
               IN /\ main_path' = r.main_path
                  /\ current_grid' = r.grid
                  /\ placement_zones' = r.placement_zones
                  /\ mg_pc' = "done"
                  /\ UNCHANGED branch
    /\ walk_current' = None
    /\ walk_path' = {}
    /\ iteration' = 0
    /\ attempts' = 0
    /\ UNCHANGED <<params, spawn_point, base_point, todo>>

\* one turn of the loop of _generate_secondary_paths, up to the call of
\* _generate_branch_path; random.randint(5, len - 6) has nothing to draw
\* from when the path has 10 cells
BranchStart ==
    /\ mg_pc = "branches"
    /\ branch.todo > 0
    /\ branch.left = 0 /\ branch.current = None
    /\ IF Cardinality(main_path) < MinBranchedPath
       THEN /\ branch' = [branch EXCEPT !.todo = @ - 1]
            /\ mg_pc' = IF branch.todo = 1 THEN "zones" ELSE mg_pc
       ELSE IF Cardinality(main_path) - 6 < 5
       THEN /\ mg_pc' = "error"
            /\ UNCHANGED branch
       ELSE /\ \E start \in main_path, length \in MinBranchLength..MaxBranchLength :
                   branch' = [branch EXCEPT !.current = start, !.left = length,
                                            !.path = {}]
            /\ UNCHANGED mg_pc
    /\ UNCHANGED <<params, current_grid, spawn_point, base_point, main_path,
                   placement_zones, walk_current, walk_path, iteration, attempts, todo>>

\* possible_moves of _generate_branch_path
BranchMoves == NeighborsOf(branch.current) \ (main_path \cup branch.path)

\* one turn of the loop of _generate_branch_path
BranchStep ==
    /\ mg_pc = "branches"
    /\ branch.current # None
    /\ branch.left > 0
    /\ BranchMoves # {}
    /\ \E move \in BranchMoves :
           branch' = [branch EXCEPT !.current = move, !.left = @ - 1,
                                    !.path = @ \cup {move}]
    /\ UNCHANGED <<mg_pc, params, current_grid, spawn_point, base_point, main_path,
                   placement_zones, walk_current, walk_path, iteration, attempts, todo>>

\* the end of _generate_branch_path
BranchEnd ==
    /\ mg_pc = "branches"
    /\ branch.current # None
    /\ branch.left = 0 \/ BranchMoves = {}
    /\ current_grid' = SetTilesOf(current_grid, branch.path, PATH)
    /\ main_path' = main_path \cup branch.path
    /\ branch' = [current |-> None, path |-> {}, left |-> 0, todo |-> branch.todo - 1]
    /\ mg_pc' = IF branch.todo = 1 THEN "zones" ELSE mg_pc
    /\ UNCHANGED <<params, spawn_point, base_point, placement_zones, walk_current,
                   walk_path, iteration, attempts, todo>>

\* the zones _create_placement_zone can return: r is its draw of
\* random.randint(-1, 1), made for every cell that passes the other tests
PlacementZonesAt(c, size) ==
    LET lo == 0 - ((size + 1) \div 2)
        hi == size \div 2
        candidates == {n \in MapCells :
                          /\ n[1] - c[1] \in lo..hi
                          /\ n[2] - c[2] \in lo..hi
                          /\ GetTileOf(current_grid, n) = EMPTY
                          /\ DistanceToPath(n, main_path) >= 1}
        Squared(n) == (n[1] - c[1]) * (n[1] - c[1]) + (n[2] - c[2]) * (n[2] - c[2])
        Within(n, r) == 4 * Squared(n) <= size * size + 4 * r
        always == {n \in candidates : Within(n, 0 - 1)}
        sometimes == {n \in candidates : Within(n, 1)} \ always
    IN {always \cup some : some \in SUBSET sometimes}

\* one turn of the loop of _generate_placement_zones
ZoneAttempt ==
    /\ mg_pc = "zones"
    /\ Len(placement_zones) < params.min_placement_areas
    /\ attempts < MapWidth * MapHeight
    /\ attempts' = attempts + 1
    /\ \E center_x \in 1..(MapWidth - 2), center_y \in 1..(MapHeight - 2) :
         IF DistanceToPath(<<center_x, center_y>>, main_path) < 2
         THEN UNCHANGED <<current_grid, placement_zones>>
         ELSE \E zone \in PlacementZonesAt(<<center_x, center_y>>,
                                           params.placement_area_size) :
                IF Cardinality(zone) >= MinZoneSize
                THEN /\ placement_zones' = Append(placement_zones, zone)
                     /\ current_grid' = SetTilesOf(current_grid, zone, BUILDABLE)
                ELSE UNCHANGED <<current_grid, placement_zones>>
    /\ UNCHANGED <<mg_pc, params, spawn_point, base_point, main_path, walk_current,
                   walk_path, iteration, branch, todo>>

\* num_decorations of _add_decorative_elements: int(w * h * density * 0.1)
NumDecorations == (MapWidth * MapHeight * params.decoration_density) \div 1000

\* the end of the loop of _generate_placement_zones
ZonesEnd ==
    /\ mg_pc = "zones"
    /\ ~(Len(placement_zones) < params.min_placement_areas
         /\ attempts < MapWidth * MapHeight)
    /\ mg_pc' = "decorations"
    /\ todo' = NumDecorations
    /\ attempts' = 0
    /\ UNCHANGED <<params, current_grid, spawn_point, base_point, main_path,
                   placement_zones, walk_current, walk_path, iteration, branch>>

\* one turn of the loop of _add_decorative_elements
AddDecoration ==
    /\ mg_pc = "decorations"
    /\ todo > 0
    /\ todo' = todo - 1
    /\ \E c \in MapCells :
         current_grid' =
             IF GetTileOf(current_grid, c) = EMPTY /\ DistanceToPath(c, main_path) >= 1
             THEN SetTilesOf(current_grid, {c}, DECORATION)
             ELSE current_grid
    /\ UNCHANGED <<mg_pc, params, spawn_point, base_point, main_path, placement_zones,
                   walk_current, walk_path, iteration, branch, attempts>>

\* the end of _add_decorative_elements and the draw of _apply_factory_theme
DecorationsEnd ==
    /\ mg_pc = "decorations"
    /\ todo = 0
    /\ mg_pc' = "theme"
    /\ \E chimneys \in MinChimneys..MaxChimneys : todo' = chimneys
    /\ UNCHANGED <<params, current_grid, spawn_point, base_point, main_path,
                   placement_zones, walk_current, walk_path, iteration, branch,
                   attempts>>

\* the cells of a decoration of the given size at c
Block(c, size) ==
    {<<c[1] + dx, c[2] + dy>> : dx \in 0..(size[1] - 1), dy \in 0..(size[2] - 1)}

\* the positions _place_decoration can draw, and those where it places
DecorationDraws(size) ==
    (0..(MapWidth - size[1])) \X (0..(MapHeight - size[2]))

CanPlace(c, size) ==
    /\ \A n \in Block(c, size) : GetTileOf(current_grid, n) = EMPTY
    /\ DistanceToPath(c, main_path) >= 1

\* _place_decoration: the first of its ten draws that can be placed, if any
PlaceDecoration(size) ==
    \/ \E c \in DecorationDraws(size) :
           /\ CanPlace(c, size)
           /\ current_grid' = SetTilesOf(current_grid, Block(c, size), DECORATION)
    \/ /\ \E c \in DecorationDraws(size) : ~CanPlace(c, size)
       /\ UNCHANGED current_grid

\* one turn of the loop of _apply_factory_theme
PlaceChimney ==
    /\ mg_pc = "theme"
    /\ todo > 0
    /\ todo' = todo - 1
    /\ PlaceDecoration(<<ChimneySize, ChimneySize>>)
    /\ UNCHANGED <<mg_pc, params, spawn_point, base_point, main_path, placement_zones,
                   walk_current, walk_path, iteration, branch, attempts>>

\* MapGenerator._is_path_continuous
IsPathContinuous == spawn_point \in main_path /\ base_point \in main_path

\* the end of _apply_factory_theme, then _validate_and_fix_map up to the
\* loop of the path it generates again, or up to its end
Validate ==
    /\ mg_pc = "theme"
    /\ todo = 0
    /\ IF IsPathContinuous
       THEN LET r == AfterValidation(current_grid, main_path, placement_zones)
            IN /\ current_grid' = r.grid
               /\ main_path' = r.main_path
               /\ placement_zones' = r.placement_zones
               /\ mg_pc' = "done"
               /\ UNCHANGED <<walk_current, walk_path, iteration>>
       ELSE /\ mg_pc' = "fix_path"
            /\ walk_current' = spawn_point
            /\ walk_path' = {spawn_point}
            /\ iteration' = 0
            /\ UNCHANGED <<current_grid, main_path, placement_zones>>
    /\ UNCHANGED <<params, spawn_point, base_point, branch, attempts, todo>>

MgNext ==
    \/ \E p \in ParamsSet :
           GenerateMap(p) /\ UNCHANGED <<evVars, smVars, tmVars, gmVars, grVars, pfVars, emVars, unitVars>>
    \/ WalkStep /\ UNCHANGED <<evVars, smVars, tmVars, gmVars, grVars, pfVars, emVars, unitVars>>
    \/ WalkEnd /\ UNCHANGED <<evVars, smVars, tmVars, gmVars, grVars, pfVars, emVars, unitVars>>
    \/ BranchStart /\ UNCHANGED <<evVars, smVars, tmVars, gmVars, grVars, pfVars, emVars, unitVars>>
    \/ BranchStep /\ UNCHANGED <<evVars, smVars, tmVars, gmVars, grVars, pfVars, emVars, unitVars>>
    \/ BranchEnd /\ UNCHANGED <<evVars, smVars, tmVars, gmVars, grVars, pfVars, emVars, unitVars>>
    \/ ZoneAttempt /\ UNCHANGED <<evVars, smVars, tmVars, gmVars, grVars, pfVars, emVars, unitVars>>
    \/ ZonesEnd /\ UNCHANGED <<evVars, smVars, tmVars, gmVars, grVars, pfVars, emVars, unitVars>>
    \/ AddDecoration /\ UNCHANGED <<evVars, smVars, tmVars, gmVars, grVars, pfVars, emVars, unitVars>>
    \/ DecorationsEnd /\ UNCHANGED <<evVars, smVars, tmVars, gmVars, grVars, pfVars, emVars, unitVars>>
    \/ PlaceChimney /\ UNCHANGED <<evVars, smVars, tmVars, gmVars, grVars, pfVars, emVars, unitVars>>
    \/ Validate /\ UNCHANGED <<evVars, smVars, tmVars, gmVars, grVars, pfVars, emVars, unitVars>>

(***************************************************************************)
(* Part IX: Enemy, its HealthComponent and MovementComponent, and          *)
(* EnemyFactory.create_enemy (gameplay/entities/enemy.py).  The sprite,    *)
(* the logger, damage_flash_timer, stats.speed and stats.reward are read   *)
(* by the rendering and reward code only and are left out.  The path runs  *)
(* along the x axis, so a position is its x coordinate.                    *)
(***************************************************************************)
MaxEnemyUpdates == 4   \* updates of the enemy in a behaviour
MaxEnemyHits == 2      \* take_damage calls in a behaviour
MaxModifiers == 2      \* entries of MovementComponent.speed_modifiers
MaxDots == 1           \* entries of HealthComponent.damage_over_time_effects
MaxEffects == 2        \* apply_effect calls in a behaviour

EnemyTypes == {"steam_soldier", "iron_golem"}
EnemyStates == {"spawning", "moving", "attacking", "stunned", "slowed", "dying", "dead"}
LevelMultipliers == {1, 1000, 1500}   \* level_multiplier 0.001, 1.0 and 1.5
Damages == {4, 96}
DamageTypes == {"physical", "fire"}
SlowMultipliers == {200, 500}         \* speed_multiplier 0.2 and 0.5
EffectTypes == {"slow", "stun", "burn", "freeze"}
EffectDurations == {20}               \* 2.0 s
EnemyDeltas == {5}                    \* delta_time 0.5 s
EnemyPaths == {<<0>>, <<0, 1>>}       \* the x of the tiles of a path

TILE_SIZE == 32
SpawnAnimationTime == 10   \* spawn_animation_timer = 1.0
DotTickInterval == 10      \* next_tick = 1.0
DefaultBurnDamage == 10    \* params.get('damage_per_second', 10)
FreezeMultiplier == 100    \* add_speed_modifier(0.1, ...)
RegenInterval == 20        \* behavior_timer >= 2.0
RegenAmount == 5           \* heal(5)
SnapDistance == 2000       \* distance < 2.0
NoTarget == 0 - 1          \* target_position None

\* Enemy._load_enemy_stats, for the two types of the model
LoadEnemyStats(t) ==
    IF t = "steam_soldier"
    THEN [max_health |-> 100, base_speed |-> 60000, armor |-> 5,
          resistance |-> [physical |-> 0, fire |-> 20], can_regenerate |-> FALSE]
    ELSE [max_health |-> 800, base_speed |-> 30000, armor |-> 25,
          resistance |-> [physical |-> 50, fire |-> 30], can_regenerate |-> TRUE]

\* HealthComponent.__init__
HealthComponent(max_health) ==
    [max_health |-> max_health, current_health |-> max_health, armor |-> 0,
     is_alive |-> TRUE, damage_over_time_effects |-> <<>>]

\* HealthComponent.take_damage
HealthTakeDamage(h, damage) ==
    IF ~h.is_alive THEN h
    ELSE LET effective_damage == Max(1, damage - h.armor)
             left == h.current_health - effective_damage
         IN  IF left <= 0
             THEN [h EXCEPT !.current_health = 0, !.is_alive = FALSE]
             ELSE [h EXCEPT !.current_health = left]

\* HealthComponent.heal without the cap at max_health
HealUncapped(h, amount) ==
    IF h.is_alive THEN [h EXCEPT !.current_health = @ + amount] ELSE h

\* HealthComponent.heal
Heal(h, amount) ==
    IF h.is_alive
    THEN [h EXCEPT !.current_health = Min(h.max_health, @ + amount)]
    ELSE h

\* HealthComponent.add_damage_over_time
AddDamageOverTime(h, damage_per_second, duration) ==
    [h EXCEPT !.damage_over_time_effects =
        Append(@, [damage_per_second |-> damage_per_second,
                   remaining_time |-> duration, next_tick |-> DotTickInterval])]

\* the loop of HealthComponent.update over the damage-over-time effects
RECURSIVE TickDots(_, _, _)
TickDots(h, effects, dt) ==
    IF effects = <<>> THEN [h EXCEPT !.damage_over_time_effects = <<>>]
    ELSE LET e == Head(effects)
             aged == [e EXCEPT !.remaining_time = @ - dt, !.next_tick = @ - dt]
             due == aged.next_tick <= 0
             h1 == IF due THEN HealthTakeDamage(h, e.damage_per_second) ELSE h
             e1 == IF due THEN [aged EXCEPT !.next_tick = DotTickInterval] ELSE aged
             rest == TickDots(h1, Tail(effects), dt)
         IN  IF e1.remaining_time <= 0 THEN rest
             ELSE [rest EXCEPT !.damage_over_time_effects = <<e1>> \o @]

\* HealthComponent.update; nothing fills heal_over_time_effects
HealthUpdate(h, dt) == TickDots(h, h.damage_over_time_effects, dt)

\* the pixel at the centre of a tile
TileCenter(t) == (t * TILE_SIZE + TILE_SIZE \div 2) * 1000

\* MovementComponent.__init__, and Enemy.__init__ setting movement.position
MovementComponent(base_speed, position) ==
    [base_speed |-> base_speed, current_speed |-> base_speed, position |-> position,
     target_position |-> NoTarget, path |-> <<>>, path_index |-> 0,
     reached_end |-> FALSE, speed_modifiers |-> <<>>, is_stunned |-> FALSE,
     stun_duration |-> 0]

\* MovementComponent._update_target
UpdateTarget(m) ==
    IF m.path_index + 1 < Len(m.path)
    THEN [m EXCEPT !.target_position = TileCenter(m.path[m.path_index + 2])]
    ELSE [m EXCEPT !.target_position = NoTarget, !.reached_end = TRUE]

\* MovementComponent.set_path
MovementSetPath(m, path) ==
    LET m1 == [m EXCEPT !.path = path, !.path_index = 0, !.reached_end = FALSE]
    IN  IF path # <<>>
        THEN UpdateTarget([m1 EXCEPT !.position = TileCenter(path[1])])
        ELSE m1

\* MovementComponent.add_speed_modifier
AddSpeedModifier(m, multiplier, duration) ==
    [m EXCEPT !.speed_modifiers =
        Append(@, [multiplier |-> multiplier, remaining_time |-> duration])]

\* MovementComponent.stun
Stun(m, duration) ==
    [m EXCEPT !.is_stunned = TRUE, !.stun_duration = Max(@, duration)]

\* the modifiers that are left after delta_time
RECURSIVE TickModifiers(_, _)
TickModifiers(mods, dt) ==
    IF mods = <<>> THEN <<>>
    ELSE LET mod == [Head(mods) EXCEPT !.remaining_time = @ - dt]
         IN  IF mod.remaining_time <= 0 THEN TickModifiers(Tail(mods), dt)
             ELSE <<mod>> \o TickModifiers(Tail(mods), dt)

\* speed_multiplier of MovementComponent.update: the product of the multipliers
RECURSIVE SpeedMultiplier(_)
SpeedMultiplier(mods) ==
    IF mods = <<>> THEN 1000
    ELSE (SpeedMultiplier(SubSeq(mods, 1, Len(mods) - 1))
             * mods[Len(mods)].multiplier) \div 1000

\* MovementComponent._move_towards_target
MoveTowardsTarget(m, dt) ==
    LET distance == Abs(m.target_position - m.position)
        move_distance == Min((m.current_speed * dt) \div 10, distance)
    IN  IF distance < SnapDistance
        THEN UpdateTarget([m EXCEPT !.position = m.target_position, !.path_index = @ + 1])
        ELSE [m EXCEPT !.position = @ + Sign(m.target_position - m.position) * move_distance]

\* MovementComponent.update
MovementUpdate(m, dt) ==
    IF m.is_stunned
    THEN IF m.stun_duration - dt <= 0
         THEN [m EXCEPT !.is_stunned = FALSE, !.stun_duration = 0]
         ELSE [m EXCEPT !.stun_duration = @ - dt]
    ELSE LET mods == TickModifiers(m.speed_modifiers, dt)
             m1 == [m EXCEPT !.speed_modifiers = mods,
                             !.current_speed = (m.base_speed * SpeedMultiplier(mods)) \div 1000]
         IN  IF m1.target_position # NoTarget /\ ~m1.reached_end
             THEN MoveTowardsTarget(m1, dt)
             ELSE m1

\* StatusEffectComponent.update: 0 stands for a key that is not in the dict
StatusEffectsUpdate(effects, dt) ==
    [t \in EffectTypes |-> IF effects[t] - dt <= 0 THEN 0 ELSE effects[t] - dt]

NoCall ==
    [damage |-> 0, damage_type |-> "physical", updates |-> 0, hits |-> 0, effects |-> 0]

\* no enemy yet
EnInit ==
    /\ enemy_type = "none"
    /\ en_stats = LoadEnemyStats("steam_soldier")
    /\ health = HealthComponent(0)
    /\ movement = MovementComponent(0, 0)
    /\ active_effects = [t \in EffectTypes |-> 0]
    /\ en_state = "spawning"
    /\ behavior_timer = 0
    /\ spawn_animation_timer = 0
    /\ en_call = NoCall

\* EnemyFactory.create_enemy, with Enemy.__init__, at the centre of tile 0
CreateEnemy(t, level_multiplier) ==
    LET base == LoadEnemyStats(t)
        scaled == (base.max_health * level_multiplier) \div 1000
    IN  /\ enemy_type = "none"
        /\ enemy_type' = t
        /\ en_stats' = IF level_multiplier # 1000
                       THEN [base EXCEPT !.max_health = scaled] ELSE base
        /\ health' = IF level_multiplier # 1000
                     THEN [HealthComponent(base.max_health) EXCEPT
                               !.max_health = scaled, !.current_health = scaled]
                     ELSE HealthComponent(base.max_health)
        /\ movement' = MovementComponent(base.base_speed, TileCenter(0))
        /\ active_effects' = [e \in EffectTypes |-> 0]
        /\ en_state' = "spawning"
        /\ behavior_timer' = 0
        /\ spawn_animation_timer' = SpawnAnimationTime
        /\ en_call' = NoCall

\* Enemy.set_path, called once on an enemy
EnemySetPath(path) ==
    /\ enemy_type # "none"
    /\ movement.path = <<>>
    /\ movement' = MovementSetPath(movement, path)
    /\ en_state' = IF en_state = "spawning" THEN "moving" ELSE en_state
    /\ en_call' = [en_call EXCEPT !.damage = 0, !.damage_type = "physical"]
    /\ UNCHANGED <<enemy_type, en_stats, health, active_effects, behavior_timer,
                   spawn_animation_timer>>

\* effective_damage of Enemy.take_damage: int(damage * (1.0 - resistance))
AfterResistance(st, damage, damage_type) ==
    (damage * (100 - st.resistance[damage_type])) \div 100

\* Enemy.take_damage, with Enemy._on_death
EnemyTakeDamage(damage, damage_type) ==
    LET after == HealthTakeDamage(health, AfterResistance(en_stats, damage, damage_type))
    IN  /\ enemy_type # "none"
        /\ en_call.hits < MaxEnemyHits
        /\ health' = after
        /\ en_state' = IF health.is_alive /\ ~after.is_alive THEN "dying" ELSE en_state
        /\ en_call' = [en_call EXCEPT !.damage = damage, !.damage_type = damage_type,
                                      !.hits = @ + 1]
        /\ UNCHANGED <<enemy_type, en_stats, movement, active_effects, behavior_timer,
                       spawn_animation_timer>>

\* Enemy.apply_effect; multiplier is the speed_multiplier of a slow
ApplyEffect(effect_type, duration, multiplier) ==
    /\ enemy_type # "none"
    /\ en_call.effects < MaxEffects
    /\ effect_type \in {"slow", "freeze"} => Len(movement.speed_modifiers) < MaxModifiers
    /\ effect_type = "burn" => Len(health.damage_over_time_effects) < MaxDots
    /\ active_effects' = [active_effects EXCEPT ![effect_type] = duration]
    /\ movement' = CASE effect_type = "slow" -> AddSpeedModifier(movement, multiplier, duration)
                     [] effect_type = "freeze" -> AddSpeedModifier(movement, FreezeMultiplier, duration)
                     [] effect_type = "stun" -> Stun(movement, duration)
                     [] OTHER -> movement
    /\ health' = IF effect_type = "burn"
                 THEN AddDamageOverTime(health, DefaultBurnDamage, duration)
                 ELSE health
    /\ en_call' = [en_call EXCEPT !.damage = 0, !.damage_type = "physical",
                                  !.effects = @ + 1]
    /\ UNCHANGED <<enemy_type, en_stats, en_state, behavior_timer, spawn_animation_timer>>

\* Enemy._update_special_behavior: the regeneration of the Iron Golem
Regenerate(h, timer) ==
    IF enemy_type = "iron_golem" /\ en_stats.can_regenerate /\ timer >= RegenInterval
    THEN IF h.current_health < en_stats.max_health THEN Heal(h, RegenAmount) ELSE h
    ELSE h

\* Enemy._update_state
UpdateState(st, timer, m) ==
    IF st = "spawning" /\ timer <= 0 THEN "moving"
    ELSE IF st = "moving" /\ m.reached_end THEN "attacking"
    ELSE st

\* Enemy.update
EnemyUpdate(dt) ==
    /\ enemy_type # "none"
    /\ en_call.updates < MaxEnemyUpdates
    /\ en_call' = [en_call EXCEPT !.damage = 0, !.damage_type = "physical",
                                  !.updates = @ + 1]
    /\ IF ~health.is_alive
       THEN UNCHANGED <<enemy_type, en_stats, health, movement, active_effects, en_state,
                        behavior_timer, spawn_animation_timer>>
       ELSE LET timer == behavior_timer + dt
                spawn == IF spawn_animation_timer > 0
                         THEN spawn_animation_timer - dt ELSE spawn_animation_timer
                regen == enemy_type = "iron_golem" /\ en_stats.can_regenerate
                             /\ timer >= RegenInterval
            IN  /\ health' = Regenerate(HealthUpdate(health, dt), timer)
                /\ movement' = MovementUpdate(movement, dt)
                /\ active_effects' = StatusEffectsUpdate(active_effects, dt)
                /\ behavior_timer' = IF regen THEN 0 ELSE timer
                /\ spawn_animation_timer' = spawn
                /\ en_state' = UpdateState(en_state, spawn, movement')
                /\ UNCHANGED <<enemy_type, en_stats>>

EnNext ==
    \/ \E t \in EnemyTypes, m \in LevelMultipliers :
           CreateEnemy(t, m) /\ UNCHANGED <<evVars, smVars, tmVars, gmVars, grVars, pfVars, emVars, mgVars, twVars, pjVars, snVars, rcVars>>
    \/ \E path \in EnemyPaths :
           EnemySetPath(path) /\ UNCHANGED <<evVars, smVars, tmVars, gmVars, grVars, pfVars, emVars, mgVars, twVars, pjVars, snVars, rcVars>>
    \/ \E d \in Damages, t \in DamageTypes :
           EnemyTakeDamage(d, t) /\ UNCHANGED <<evVars, smVars, tmVars, gmVars, grVars, pfVars, emVars, mgVars, twVars, pjVars, snVars, rcVars>>
    \/ \E e \in EffectTypes, d \in EffectDurations, m \in SlowMultipliers :
           ApplyEffect(e, d, m) /\ UNCHANGED <<evVars, smVars, tmVars, gmVars, grVars, pfVars, emVars, mgVars, twVars, pjVars, snVars, rcVars>>
    \/ \E dt \in EnemyDeltas :
           EnemyUpdate(dt) /\ UNCHANGED <<evVars, smVars, tmVars, gmVars, grVars, pfVars, emVars, mgVars, twVars, pjVars, snVars, rcVars>>

(***************************************************************************)
(* Part X: Tower, its AttackComponent and TargetingComponent               *)
(* (gameplay/entities/tower.py).  The enemies handed to update carry no    *)
(* path, so get_distance_traveled is 0.0 for each and the FIRST targeting  *)
(* mode picks the first candidate of the list.  _get_enemies_in_radius     *)
(* returns [] in the code, so an attack or a mine damages no enemy.  The   *)
(* sprite, muzzle_flash_timer and recent_targets are read by no operation  *)
(* of the model and are left out.  An exception that leaves update is      *)
(* recorded and ends the use of the tower.  tower.py and projectile.py     *)
(* import each other, so neither can be imported first; the model is about *)
(* the classes once both modules are loaded.                               *)
(***************************************************************************)
MaxTowerUpdates == 5   \* updates of the tower in a behaviour
MaxFoeChanges == 2     \* moves and deaths of enemies in a behaviour
NumFoes == 2           \* enemies handed to update

TowerTypes == {"cryo_steam", "mine_layer"}
TowerDeltas == {5, 30, 200}    \* delta_time 0.05 s, 0.3 s and 2.0 s
FoeDistances == {0, 30, 200}   \* distance of an enemy to the tower

ConstructionTime == 200   \* construction_time = 2.0
ScanInterval == 10        \* scan_interval = 0.1
MineRange == 48           \* mine_range = 48.0
MineReload == 300         \* attack_timer = 3.0

\* Tower._load_tower_stats, for the two types of the model; attack_speed in
\* hundredths of an attack per second
LoadTowerStats(t) ==
    IF t = "cryo_steam"
    THEN [range |-> 80, attack_speed |-> 100, area_radius |-> 64]
    ELSE [range |-> 0, attack_speed |-> 0, area_radius |-> 32]

NoTowerCall ==
    [updates |-> 0, changes |-> 0, delta_time |-> 0, shot |-> FALSE,
     detonated |-> FALSE, scanned |-> FALSE, error |-> "none"]

\* no tower yet
TwInit ==
    /\ tower_type = "none"
    /\ targeting_range = 0
    /\ is_constructed = FALSE
    /\ construction_timer = 0
    /\ attack_timer = 0
    /\ tw_target = 0
    /\ last_scan_time = 0
    /\ foes = <<>>
    /\ tw_call = NoTowerCall

\* TowerFactory.create_tower with Tower.__init__, and the enemies of the game
CreateTower(t, distances) ==
    /\ tower_type = "none"
    /\ tower_type' = t
    /\ targeting_range' = LoadTowerStats(t).range
    /\ is_constructed' = FALSE
    /\ construction_timer' = ConstructionTime
    /\ attack_timer' = 0
    /\ tw_target' = 0
    /\ last_scan_time' = 0
    /\ foes' = [i \in 1..NumFoes |->
                   [distance |-> distances[i], is_alive |-> TRUE, is_flying |-> FALSE]]
    /\ tw_call' = NoTowerCall

\* an enemy moves
FoeMoves(i, d) ==
    /\ tower_type # "none" /\ tw_call.error = "none"
    /\ tw_call.changes < MaxFoeChanges
    /\ foes[i].is_alive /\ foes[i].distance # d
    /\ foes' = [foes EXCEPT ![i].distance = d]
    /\ tw_call' = [tw_call EXCEPT !.changes = @ + 1, !.shot = FALSE,
                                  !.detonated = FALSE, !.scanned = FALSE]
    /\ UNCHANGED <<tower_type, targeting_range, is_constructed, construction_timer,
                   attack_timer, tw_target, last_scan_time>>

\* an enemy dies
FoeDies(i) ==
    /\ tower_type # "none" /\ tw_call.error = "none"
    /\ tw_call.changes < MaxFoeChanges
    /\ foes[i].is_alive
    /\ foes' = [foes EXCEPT ![i].is_alive = FALSE]
    /\ tw_call' = [tw_call EXCEPT !.changes = @ + 1, !.shot = FALSE,
                                  !.detonated = FALSE, !.scanned = FALSE]
    /\ UNCHANGED <<tower_type, targeting_range, is_constructed, construction_timer,
                   attack_timer, tw_target, last_scan_time>>

\* TargetingComponent._is_enemy_in_range
IsEnemyInRange(range, enemy) == enemy.distance <= range

\* the candidates of TargetingComponent.find_target, in the order of the list
TargetsInRange(range, enemies) ==
    {i \in 1..Len(enemies) : enemies[i].is_alive /\ IsEnemyInRange(range, enemies[i])}

\* TargetingComponent._select_best_target in the FIRST mode: max() keeps
\* the first of the candidates of equal distance travelled
SelectBestTarget(candidates) ==
    IF candidates = {} THEN 0
    ELSE CHOOSE i \in candidates : \A j \in candidates : i <= j

\* TargetingComponent.find_target: the new last_scan_time and the target
FindTarget(scan, range, enemies, dt) ==
    IF scan + dt < ScanInterval
    THEN [last_scan_time |-> scan + dt, found |-> 0, scanned |-> FALSE]
    ELSE [last_scan_time |-> 0,
          found |-> SelectBestTarget(TargetsInRange(range, enemies)), scanned |-> TRUE]

\* a mine of Tower._update_mine_layer goes off
MineTriggered(enemies) ==
    \E i \in 1..Len(enemies) :
        enemies[i].is_alive /\ ~enemies[i].is_flying /\ enemies[i].distance <= MineRange

\* AttackComponent.start_attack: 1.0 / attack_speed
Cooldown(t) == 10000 \div LoadTowerStats(t).attack_speed

\* Tower.update while the tower is being built
Construct(dt) ==
    /\ ~is_constructed
    /\ construction_timer' = construction_timer - dt
    /\ is_constructed' = (construction_timer - dt <= 0)
    /\ tw_call' = [tw_call EXCEPT !.updates = @ + 1, !.delta_time = dt, !.shot = FALSE,
                                  !.detonated = FALSE, !.scanned = FALSE]
    /\ UNCHANGED <<tower_type, targeting_range, attack_timer, tw_target,
                   last_scan_time, foes>>

\* Tower.update of a built tower: AttackComponent.update, the search of a
\* target, _perform_attack and _update_special_behavior
Operate(dt) ==
    LET timer == IF attack_timer > 0 THEN attack_timer - dt ELSE attack_timer
        \* self._is_target_in_range is defined nowhere
        missing == tw_target # 0 /\ foes[tw_target].is_alive
        kept == IF tw_target # 0 /\ ~foes[tw_target].is_alive THEN 0 ELSE tw_target
        search == IF kept = 0
                  THEN FindTarget(last_scan_time, targeting_range, foes, dt)
                  ELSE [last_scan_time |-> last_scan_time, found |-> kept, scanned |-> FALSE]
        attacks == search.found # 0 /\ timer <= 0
        divides == attacks /\ LoadTowerStats(tower_type).attack_speed = 0
        mine == tower_type = "mine_layer" /\ MineTriggered(foes)
        call == [tw_call EXCEPT !.updates = @ + 1, !.delta_time = dt, !.shot = FALSE,
                                !.detonated = FALSE, !.scanned = FALSE]
    IN  /\ is_constructed
        /\ IF missing
           THEN /\ attack_timer' = timer
                /\ tw_call' = [call EXCEPT !.error = "AttributeError"]
                /\ UNCHANGED <<tw_target, last_scan_time>>
           ELSE IF divides
           THEN /\ attack_timer' = timer
                /\ tw_target' = search.found
                /\ last_scan_time' = search.last_scan_time
                /\ tw_call' = [call EXCEPT !.scanned = search.scanned,
                                           !.error = "ZeroDivisionError"]
           ELSE /\ attack_timer' = IF mine THEN MineReload
                                   ELSE IF attacks THEN Cooldown(tower_type)
                                   ELSE timer
                /\ tw_target' = search.found
                /\ last_scan_time' = search.last_scan_time
                /\ tw_call' = [call EXCEPT !.shot = attacks, !.detonated = mine,
                                           !.scanned = search.scanned]
        /\ UNCHANGED <<tower_type, targeting_range, is_constructed, construction_timer, foes>>

\* Tower.update
TowerUpdate(dt) ==
    /\ tower_type # "none" /\ tw_call.error = "none"
    /\ tw_call.updates < MaxTowerUpdates
    /\ (Construct(dt) \/ Operate(dt))

TwNext ==
    \/ \E t \in TowerTypes, d \in [1..NumFoes -> FoeDistances] :
           CreateTower(t, d) /\ UNCHANGED <<evVars, smVars, tmVars, gmVars, grVars, pfVars, emVars, mgVars, enVars, pjVars, snVars, rcVars>>
    \/ \E i \in 1..NumFoes, d \in FoeDistances :
           FoeMoves(i, d) /\ UNCHANGED <<evVars, smVars, tmVars, gmVars, grVars, pfVars, emVars, mgVars, enVars, pjVars, snVars, rcVars>>
    \/ \E i \in 1..NumFoes :
           FoeDies(i) /\ UNCHANGED <<evVars, smVars, tmVars, gmVars, grVars, pfVars, emVars, mgVars, enVars, pjVars, snVars, rcVars>>
    \/ \E dt \in TowerDeltas :
           TowerUpdate(dt) /\ UNCHANGED <<evVars, smVars, tmVars, gmVars, grVars, pfVars, emVars, mgVars, enVars, pjVars, snVars, rcVars>>

(***************************************************************************)
(* Part XI: ProjectileManager and Projectile                               *)
(* (gameplay/entities/projectile.py).  A shot flies along the x axis from  *)
(* 0 to its target, so a position is its x coordinate.  The sprite and the *)
(* EffectsComponent are read by the rendering code only and are left out.  *)
(* The id of a projectile stands for the identity of the object.           *)
(* EffectsComponent._setup_trail reads the global name projectile_type,    *)
(* which projectile.py does not define: Projectile.__init__ raises         *)
(* NameError unless the program that imports the module has bound that     *)
(* name.  Both cases are in the model.                                     *)
(***************************************************************************)
MaxShots == 2       \* projectiles created in a behaviour
MaxPmUpdates == 5   \* updates of the manager in a behaviour

ProjectileTypes == {"bullet", "lightning_bolt", "mine"}
PmDeltas == {2, 5}             \* delta_time 0.2 s and 0.5 s
ShotTargets == {100, 250}      \* target_position
ShotSpeeds == {50}             \* speed 500 px/s, in pixels per tenth of a second

max_projectiles == 200     \* self.max_projectiles = 200
cleanup_interval == 10     \* self.cleanup_interval = 1.0
max_travel_time == 100     \* self.max_travel_time = 10.0
HitDistance == 5           \* distance_to_target < 5.0

\* Projectile._get_movement_type, for the types of the model
GetMovementType(projectile_type) ==
    CASE projectile_type = "lightning_bolt" -> "instant"
      [] projectile_type = "mine" -> "static"
      [] OTHER -> "linear"

\* Projectile.__init__ with MovementComponent.__init__ and set_target
NewProjectile(id, projectile_type, target_position, speed) ==
    LET movement_type == GetMovementType(projectile_type)
    IN  [id |-> id, projectile_type |-> projectile_type, movement_type |-> movement_type,
         position |-> IF movement_type = "instant" THEN target_position ELSE 0,
         target_position |-> target_position,
         velocity |-> IF movement_type = "linear" /\ target_position > 0 THEN speed ELSE 0,
         has_hit |-> movement_type = "instant", travel_time |-> 0,
         is_active |-> TRUE, has_exploded |-> FALSE]

\* MovementComponent._update_linear_movement
UpdateLinearMovement(p, dt) ==
    LET new_x == p.position + p.velocity * dt
    IN  IF Abs(new_x - p.target_position) < HitDistance
        THEN [p EXCEPT !.position = p.target_position, !.has_hit = TRUE]
        ELSE [p EXCEPT !.position = new_x]

\* MovementComponent.update of a projectile
ProjectileMovementUpdate(p, dt) ==
    IF p.has_hit THEN p
    ELSE IF p.travel_time + dt >= max_travel_time
    THEN [p EXCEPT !.travel_time = @ + dt, !.has_hit = TRUE]
    ELSE IF p.movement_type = "linear"
    THEN UpdateLinearMovement([p EXCEPT !.travel_time = @ + dt], dt)
    ELSE [p EXCEPT !.travel_time = @ + dt]

\* Projectile.update, with _trigger_impact
ProjectileUpdate(p, dt) ==
    IF ~p.is_active THEN p
    ELSE LET moved == ProjectileMovementUpdate(p, dt)
         IN  IF moved.has_hit /\ ~moved.has_exploded
             THEN [moved EXCEPT !.has_exploded = TRUE]
             ELSE moved

\* Projectile.is_expired
IsExpired(p) ==
    \/ p.travel_time >= max_travel_time
    \/ p.has_exploded /\ p.projectile_type # "mine"

\* ProjectileManager._cleanup_expired_projectiles
CleanupExpiredProjectiles(projectiles) ==
    SelectSeq(projectiles, LAMBDA p : ~IsExpired(p))

\* the ids of the projectiles of a list
IdsOf(projectiles) == {projectiles[i].id : i \in 1..Len(projectiles)}

\* the projectiles of a list whose has_hit flag is set
HitIds(projectiles) ==
    {projectiles[i].id : i \in {j \in 1..Len(projectiles) : projectiles[j].has_hit}}

NoPmCall == [updates |-> 0, created |-> 0, hit_at_tick_end |-> {}, error |-> "none"]

\* ProjectileManager.__init__
PjInit ==
    /\ active_projectiles = <<>>
    /\ cleanup_timer = 0
    /\ pm_call = NoPmCall

\* ProjectileManager.create_projectile; bound tells whether the global name
\* that EffectsComponent._setup_trail reads is bound
CreateProjectile(projectile_type, target_position, speed, bound) ==
    LET full == Len(active_projectiles) >= max_projectiles
    IN  /\ pm_call.created < MaxShots
        /\ active_projectiles' =
               IF full \/ ~bound THEN active_projectiles
               ELSE Append(active_projectiles,
                           NewProjectile(pm_call.created + 1, projectile_type, target_position,
                                         speed))
        /\ pm_call' = [pm_call EXCEPT !.created = @ + 1,
                                      !.error = IF ~full /\ ~bound THEN "NameError" ELSE "none"]
        /\ UNCHANGED cleanup_timer

\* Projectile.destroy on a projectile of the manager
DestroyProjectile(i) ==
    /\ i \in 1..Len(active_projectiles)
    /\ active_projectiles[i].is_active
    /\ active_projectiles' = [active_projectiles EXCEPT
           ![i].is_active = FALSE, ![i].has_hit = TRUE, ![i].has_exploded = TRUE]
    /\ pm_call' = [pm_call EXCEPT !.error = "none"]
    /\ UNCHANGED cleanup_timer

\* ProjectileManager.update
PmUpdate(dt) ==
    LET updated == [i \in 1..Len(active_projectiles) |->
                       ProjectileUpdate(active_projectiles[i], dt)]
        cleans == cleanup_timer + dt >= cleanup_interval
        kept == IF cleans THEN CleanupExpiredProjectiles(updated) ELSE updated
    IN  /\ pm_call.updates < MaxPmUpdates
        /\ active_projectiles' = kept
        /\ cleanup_timer' = IF cleans THEN 0 ELSE cleanup_timer + dt
        /\ pm_call' = [pm_call EXCEPT !.updates = @ + 1, !.hit_at_tick_end = HitIds(kept),
                                      !.error = "none"]

\* ProjectileManager.clear_all
PmClearAll ==
    /\ active_projectiles # <<>>
    /\ active_projectiles' = <<>>
    /\ pm_call' = [pm_call EXCEPT !.error = "none"]
    /\ UNCHANGED cleanup_timer

PjNext ==
    \/ \E t \in ProjectileTypes, x \in ShotTargets, v \in ShotSpeeds, bound \in BOOLEAN :
           CreateProjectile(t, x, v, bound) /\ UNCHANGED <<evVars, smVars, tmVars, gmVars, grVars, pfVars, emVars, mgVars, enVars, twVars, snVars, rcVars>>
    \/ \E i \in 1..MaxShots :
           DestroyProjectile(i) /\ UNCHANGED <<evVars, smVars, tmVars, gmVars, grVars, pfVars, emVars, mgVars, enVars, twVars, snVars, rcVars>>
    \/ \E dt \in PmDeltas :
           PmUpdate(dt) /\ UNCHANGED <<evVars, smVars, tmVars, gmVars, grVars, pfVars, emVars, mgVars, enVars, twVars, snVars, rcVars>>
    \/ PmClearAll /\ UNCHANGED <<evVars, smVars, tmVars, gmVars, grVars, pfVars, emVars, mgVars, enVars, twVars, snVars, rcVars>>

(***************************************************************************)
(* Part VI, continued: a Pathfinder on a grid that its clients change      *)
(*                                                                         *)
(* The Pathfinder keeps a reference to the Grid and reads it at every      *)
(* search; nothing in pathfinding.py or grid.py tells it of a change.      *)
(* find_path is called with the default PathfindingConstraints here.       *)
(***************************************************************************)
\* the cells whose tile the clients change
MutableCells == {<<1, 0>>, <<3, 1>>}
\* the tile types they are given
MutableKinds == {EMPTY, WALL}

PathGridNext ==
    \/ \E start \in Endpoints, goal \in Endpoints, a \in Algorithms :
           FindPath(start, goal, a, DefaultMaxSearchNodes)
               /\ UNCHANGED <<evVars, smVars, tmVars, gmVars, grVars, emVars, mgVars, unitVars>>
    \/ ClearCache /\ UNCHANGED <<evVars, smVars, tmVars, gmVars, grVars, emVars, mgVars, unitVars>>
    \/ \E c \in MutableCells, k \in MutableKinds :
           SetTile(c[1], c[2], k)
               /\ UNCHANGED <<evVars, smVars, tmVars, gmVars, pfVars, emVars, mgVars, unitVars>>
    \/ \E c \in MutableCells, k \in MutableKinds :
           SetTileProperties(c[1], c[2], DefaultProperties(k))
               /\ UNCHANGED <<evVars, smVars, tmVars, gmVars, pfVars, emVars, mgVars, unitVars>>

(***************************************************************************)
(* Part XII: a sniper_mecha Tower that shoots, its projectiles and the     *)
(* enemies (gameplay/entities/tower.py, projectile.py, enemy.py).  The     *)
(* tower stands at 0 on the x axis and the enemies stand on that axis, so a *)
(* position is an x coordinate and the distance of an enemy is its         *)
(* position.  The part starts when the construction of the tower has       *)
(* ended.  delta_time is at least scan_interval, so every search for a     *)
(* target scans.  An exception that leaves update is recorded and ends the *)
(* use of the tower.  A projectile_impact event is counted where           *)
(* emit_event is called with it, by the projectile or by the tower.        *)
(***************************************************************************)
MaxSniperUpdates == 21   \* updates of the tower in a behaviour
MaxSniperShots == 2      \* projectiles created in a behaviour
MaxSniperChanges == 2    \* moves of enemies, and deaths by another hand, in a behaviour
NumSniperFoes == 2       \* enemies handed to update

SniperDeltas == {2, 5}                    \* delta_time 0.2 s and 0.5 s
SniperFoePositions == {100, 160, 7600}    \* where an enemy stands
SniperFoeTypes == <<"steam_soldier", "iron_golem">>   \* the types of the enemies

SniperDamage == 400     \* damage=400
SniperRange == 200      \* range=200.0
SniperSpeed == 80       \* projectile_speed=800.0, in pixels per tenth of a second
SniperCooldown == 17    \* 1.0 / 0.6 s: the first whole tenth at which the timer is <= 0
ImpactRadius == 16      \* _find_closest_enemy_to_point(hit_position, enemies, 16.0)

SniperShotIds == 1..MaxSniperShots

NoSniperLog ==
    [updates |-> 0, created |-> 0, changes |-> 0, bound |-> TRUE,
     emitted |-> [id \in SniperShotIds |-> 0], damaged |-> [id \in SniperShotIds |-> 0],
     timed_out |-> {}, reached |-> {}, error |-> "none"]

\* no tower yet
SnInit ==
    /\ sn_built = FALSE
    /\ sn_attack_timer = 0
    /\ sn_target = 0
    /\ sn_projectiles = <<>>
    /\ sn_enemies = <<>>
    /\ sn_log = NoSniperLog

\* EnemyFactory.create_enemy at a position
NewFoe(t, position) ==
    [enemy_type |-> t, distance |-> position,
     health |-> HealthComponent(LoadEnemyStats(t).max_health)]

\* TowerFactory.create_tower and the updates that build the tower, and the
\* enemies of the game; bound tells whether the global name that
\* EffectsComponent._setup_trail reads is bound
CreateSniper(positions, bound) ==
    /\ ~sn_built
    /\ sn_built' = TRUE
    /\ sn_attack_timer' = 0
    /\ sn_target' = 0
    /\ sn_projectiles' = <<>>
    /\ sn_enemies' = [i \in 1..NumSniperFoes |-> NewFoe(SniperFoeTypes[i], positions[i])]
    /\ sn_log' = [NoSniperLog EXCEPT !.bound = bound]

\* Enemy.take_damage on an enemy of the list
FoeTakeDamage(enemy, damage, damage_type) ==
    [enemy EXCEPT !.health =
        HealthTakeDamage(@, AfterResistance(LoadEnemyStats(enemy.enemy_type), damage,
                                            damage_type))]

\* an enemy is killed by something else than the tower
SnFoeDies(i) ==
    /\ sn_built /\ sn_log.error = "none"
    /\ sn_log.changes < MaxSniperChanges
    /\ sn_enemies[i].health.is_alive
    /\ sn_enemies' = [sn_enemies EXCEPT ![i] =
                         FoeTakeDamage(@, 2 * @.health.max_health, "physical")]
    /\ sn_log' = [sn_log EXCEPT !.changes = @ + 1]
    /\ UNCHANGED <<sn_built, sn_attack_timer, sn_target, sn_projectiles>>

\* an enemy walks to another position
SnFoeMoves(i, position) ==
    /\ sn_built /\ sn_log.error = "none"
    /\ sn_log.changes < MaxSniperChanges
    /\ sn_enemies[i].health.is_alive /\ sn_enemies[i].distance # position
    /\ sn_enemies' = [sn_enemies EXCEPT ![i].distance = position]
    /\ sn_log' = [sn_log EXCEPT !.changes = @ + 1]
    /\ UNCHANGED <<sn_built, sn_attack_timer, sn_target, sn_projectiles>>

\* what the TargetingComponent reads of the enemies
Sighted(enemies) ==
    [i \in 1..Len(enemies) |->
        [distance |-> enemies[i].distance, is_alive |-> enemies[i].health.is_alive]]

\* Tower._find_closest_enemy_to_point: 0 for None; of two enemies equally
\* close the first of the list is kept
FindClosestEnemyToPoint(point, enemies, max_distance) ==
    LET near == {i \in 1..Len(enemies) :
                    /\ enemies[i].health.is_alive
                    /\ Abs(point - enemies[i].distance) < max_distance}
    IN  IF near = {} THEN 0
        ELSE CHOOSE i \in near :
                 \A j \in near :
                     \/ Abs(point - enemies[i].distance) < Abs(point - enemies[j].distance)
                     \/ /\ Abs(point - enemies[i].distance) = Abs(point - enemies[j].distance)
                        /\ i <= j

\* Tower._handle_projectile_hit of a tower without area damage: the enemies
\* afterwards and the index of the enemy that took the damage
HandleProjectileHit(p, enemies) ==
    LET closest_enemy == FindClosestEnemyToPoint(p.position, enemies, ImpactRadius)
    IN  [enemies |-> IF closest_enemy = 0 THEN enemies
                     ELSE [enemies EXCEPT ![closest_enemy] =
                              FoeTakeDamage(@, SniperDamage, "physical")],
         struck |-> closest_enemy]

\* Tower._update_projectiles: the loop over the copy of active_projectiles;
\* st holds the projectiles kept so far, the enemies and the log
RECURSIVE UpdateShots(_, _, _)
UpdateShots(shots, dt, st) ==
    IF shots = <<>> THEN st
    ELSE LET p == Head(shots)
             moved == ProjectileUpdate(p, dt)
             \* Projectile._trigger_impact ran in this update
             triggered == moved.has_exploded /\ ~p.has_exploded
             \* MovementComponent.update set has_hit because of the travel time
             expired == p.is_active /\ ~p.has_hit /\ p.travel_time + dt >= max_travel_time
             hit == moved.has_hit
             handled == IF hit THEN HandleProjectileHit(moved, st.enemies)
                        ELSE [enemies |-> st.enemies, struck |-> 0]
             events == (IF triggered THEN 1 ELSE 0) + (IF hit THEN 1 ELSE 0)
             log == [st.log EXCEPT
                        !.emitted[p.id] = @ + events,
                        !.damaged[p.id] = @ + (IF handled.struck # 0 THEN 1 ELSE 0),
                        !.timed_out = IF hit /\ expired THEN @ \cup {p.id} ELSE @,
                        !.reached = IF hit /\ ~expired THEN @ \cup {p.id} ELSE @]
             kept == IF hit \/ IsExpired(moved) THEN st.kept ELSE Append(st.kept, moved)
         IN  UpdateShots(Tail(shots), dt,
                         [kept |-> kept, enemies |-> handled.enemies, log |-> log])

\* Tower.update of a built tower: AttackComponent.update, the search of a
\* target, _perform_attack with _create_projectile, and _update_projectiles
SniperUpdate(dt) ==
    LET timer == IF sn_attack_timer > 0 THEN sn_attack_timer - dt ELSE sn_attack_timer
        \* self._is_target_in_range is defined nowhere
        missing == sn_target # 0 /\ sn_enemies[sn_target].health.is_alive
        found == FindTarget(0, SniperRange, Sighted(sn_enemies), 10 * dt).found
        attacks == found # 0 /\ timer <= 0
        shot == NewProjectile(sn_log.created + 1, "sniper_bullet",
                              sn_enemies[found].distance, SniperSpeed)
        call == [sn_log EXCEPT !.updates = @ + 1]
        after == UpdateShots(IF attacks THEN Append(sn_projectiles, shot) ELSE sn_projectiles,
                             dt,
                             [kept |-> <<>>, enemies |-> sn_enemies,
                              log |-> IF attacks THEN [call EXCEPT !.created = @ + 1]
                                      ELSE call])
    IN  /\ sn_built /\ sn_log.error = "none"
        /\ sn_log.updates < MaxSniperUpdates
        /\ IF missing
           THEN /\ sn_attack_timer' = timer
                /\ sn_log' = [call EXCEPT !.error = "AttributeError"]
                /\ UNCHANGED <<sn_target, sn_projectiles, sn_enemies>>
           ELSE IF attacks /\ ~sn_log.bound
           THEN /\ sn_attack_timer' = SniperCooldown
                /\ sn_target' = found
                /\ sn_log' = [call EXCEPT !.error = "NameError"]
                /\ UNCHANGED <<sn_projectiles, sn_enemies>>
           ELSE /\ attacks => sn_log.created < MaxSniperShots
                /\ sn_attack_timer' = IF attacks THEN SniperCooldown ELSE timer
                /\ sn_target' = found
                /\ sn_projectiles' = after.kept
                /\ sn_enemies' = after.enemies
                /\ sn_log' = after.log
        /\ UNCHANGED sn_built

SnNext ==
    \/ \E positions \in [1..NumSniperFoes -> SniperFoePositions], bound \in BOOLEAN :
           CreateSniper(positions, bound) /\ UNCHANGED <<evVars, smVars, tmVars, gmVars, grVars, pfVars, emVars, mgVars, enVars, twVars, pjVars, rcVars>>
    \/ \E i \in 1..NumSniperFoes, position \in SniperFoePositions :
           SnFoeMoves(i, position) /\ UNCHANGED <<evVars, smVars, tmVars, gmVars, grVars, pfVars, emVars, mgVars, enVars, twVars, pjVars, rcVars>>
    \/ \E i \in 1..NumSniperFoes :
           SnFoeDies(i) /\ UNCHANGED <<evVars, smVars, tmVars, gmVars, grVars, pfVars, emVars, mgVars, enVars, twVars, pjVars, rcVars>>
    \/ \E dt \in SniperDeltas :
           SniperUpdate(dt) /\ UNCHANGED <<evVars, smVars, tmVars, gmVars, grVars, pfVars, emVars, mgVars, enVars, twVars, pjVars, rcVars>>

(***************************************************************************)
(* Part XIII: ResourceManager and ResourceCache (core/resource_manager.py) *)
(* used by the main thread while the thread of start_background_cleanup    *)
(* runs _cleanup_worker.  ResourceCache.resources and .metadata always     *)
(* have the same keys; the model keeps the metadata, in the insertion      *)
(* order of the dictionary.  An entry is old when its age is above the     *)
(* max_age_seconds of cleanup_expired.  A step of a thread is the taking   *)
(* of the lock, or the accesses to the dictionaries made between two       *)
(* points where the other thread can run.  _lock is an RLock: its owner    *)
(* takes it again without waiting.  The resources of the model are small,  *)
(* so _ensure_memory_available removes nothing.  An iterator over a        *)
(* dictionary raises RuntimeError when the size of the dictionary has      *)
(* changed since it was made.  An exception that leaves a call of the main *)
(* thread is recorded and ends its calls.                                  *)
(***************************************************************************)
MaxRcCalls == 4      \* calls made by the main thread in a behaviour
MaxCleanups == 2     \* rounds of the cleanup thread in a behaviour

ResourceKeys == {"a", "b"}
ResourceTypes == {"texture", "data"}
CachePolicies == {"temporary", "permanent"}
RcThreads == {"main", "cleanup"}

NoAccess == [thread |-> "none", kind |-> "none", locked |-> FALSE]
NoLocal == [key |-> "none", resource_type |-> "none", cache_policy |-> "none",
            size |-> 0, index |-> 0, keys |-> <<>>]

\* ResourceCache.__init__ and ResourceManager.__init__, both threads idle
RcInit ==
    /\ rc_metadata = <<>>
    /\ rc_lock = [owner |-> "none", count |-> 0]
    /\ rc_pc = [t \in RcThreads |-> "idle"]
    /\ rc_local = [t \in RcThreads |-> NoLocal]
    /\ rc_access = NoAccess
    /\ rc_log = [calls |-> 0, cleanups |-> 0, error |-> "none"]

\* RLock.acquire can return at once for the thread
CanAcquire(t) == rc_lock.owner \in {"none", t}

\* RLock.acquire
Acquire(lock, t) == [owner |-> t, count |-> lock.count + 1]

\* RLock.release
Release(lock) ==
    IF lock.count = 1 THEN [owner |-> "none", count |-> 0]
    ELSE [lock EXCEPT !.count = @ - 1]

\* an access of a thread to resources or metadata, with whether the thread
\* holds _lock
Access(t, kind) == [thread |-> t, kind |-> kind, locked |-> rc_lock.owner = t]

\* the keys of the dictionary
KeysOf(metadata) == {metadata[i].key : i \in 1..Len(metadata)}

\* self.metadata[key] = metadata
SetItem(metadata, entry) ==
    IF entry.key \in KeysOf(metadata)
    THEN [i \in 1..Len(metadata) |->
             IF metadata[i].key = entry.key THEN entry ELSE metadata[i]]
    ELSE Append(metadata, entry)

\* del self.metadata[key]
DelItem(metadata, key) == SelectSeq(metadata, LAMBDA e : e.key # key)

\* the start of a call of the main thread
MainCalls ==
    /\ rc_pc["main"] = "idle"
    /\ rc_log.error = "none"
    /\ rc_log.calls < MaxRcCalls
    /\ rc_log' = [rc_log EXCEPT !.calls = @ + 1]

\* a thread enters the with block of a method of the cache
Enters(t, method, local) ==
    /\ CanAcquire(t)
    /\ rc_lock' = Acquire(rc_lock, t)
    /\ rc_pc' = [rc_pc EXCEPT ![t] = method]
    /\ rc_local' = [rc_local EXCEPT ![t] = local]
    /\ UNCHANGED <<rc_metadata, rc_access>>

\* a thread leaves the with block and the method
Leaves(t) ==
    /\ rc_lock' = Release(rc_lock)
    /\ rc_pc' = [rc_pc EXCEPT ![t] = "idle"]
    /\ rc_local' = [rc_local EXCEPT ![t] = NoLocal]

\* ResourceManager.add_generated_resource or load_resource reaches
\* ResourceCache.add
CallAdd(key, resource_type, cache_policy) ==
    /\ MainCalls
    /\ Enters("main", "add", [NoLocal EXCEPT !.key = key, !.resource_type = resource_type,
                                             !.cache_policy = cache_policy])

\* the with block of ResourceCache.add
AddBody ==
    /\ rc_pc["main"] = "add"
    /\ rc_metadata' = SetItem(rc_metadata,
                              [key |-> rc_local["main"].key,
                               resource_type |-> rc_local["main"].resource_type,
                               cache_policy |-> rc_local["main"].cache_policy,
                               old |-> FALSE])
    /\ rc_access' = Access("main", "write")
    /\ Leaves("main")
    /\ UNCHANGED rc_log

\* ResourceManager.load_resource reaches ResourceCache.get
CallGet(key) ==
    /\ MainCalls
    /\ Enters("main", "get", [NoLocal EXCEPT !.key = key])

\* the with block of ResourceCache.get, with ResourceMetadata.update_access
GetBody ==
    /\ rc_pc["main"] = "get"
    /\ rc_metadata' = [i \in 1..Len(rc_metadata) |->
                          IF rc_metadata[i].key = rc_local["main"].key
                          THEN [rc_metadata[i] EXCEPT !.old = FALSE]
                          ELSE rc_metadata[i]]
    /\ rc_access' = Access("main", IF rc_local["main"].key \in KeysOf(rc_metadata)
                                   THEN "write" ELSE "read")
    /\ Leaves("main")
    /\ UNCHANGED rc_log

\* ResourceManager.remove_resource reaches ResourceCache.remove
CallRemove(key) ==
    /\ MainCalls
    /\ Enters("main", "remove", [NoLocal EXCEPT !.key = key])

\* the with block of ResourceCache.remove
RemoveBody ==
    /\ rc_pc["main"] = "remove"
    /\ rc_metadata' = DelItem(rc_metadata, rc_local["main"].key)
    /\ rc_access' = Access("main", IF rc_local["main"].key \in KeysOf(rc_metadata)
                                   THEN "write" ELSE "read")
    /\ Leaves("main")
    /\ UNCHANGED rc_log

\* ResourceManager.invalidate_cache(None) reaches ResourceCache.clear
CallInvalidateAll ==
    /\ MainCalls
    /\ Enters("main", "clear", NoLocal)

\* the with block of ResourceCache.clear without a filter
ClearBody ==
    /\ rc_pc["main"] = "clear"
    /\ rc_metadata' = <<>>
    /\ rc_access' = Access("main", "write")
    /\ Leaves("main")
    /\ UNCHANGED rc_log

\* the for statement of ResourceManager.invalidate_cache(resource_type) or
\* of verify_resources makes the iterator of self.cache.metadata.items()
IterStart(method, resource_type) ==
    /\ MainCalls
    /\ rc_pc' = [rc_pc EXCEPT !["main"] = method]
    /\ rc_local' = [rc_local EXCEPT !["main"] =
                       [NoLocal EXCEPT !.resource_type = resource_type,
                                       !.size = Len(rc_metadata)]]
    /\ rc_access' = Access("main", "read")
    /\ UNCHANGED <<rc_metadata, rc_lock>>

\* ResourceManager.invalidate_cache with a resource type
CallInvalidate(resource_type) == IterStart("invalidate_cache", resource_type)

\* ResourceManager.verify_resources
CallVerify == IterStart("verify_resources", "none")

\* the for statement asks the iterator for the next item
IterNext ==
    LET local == rc_local["main"]
        entry == rc_metadata[local.index + 1]
        keys == IF rc_pc["main"] = "invalidate_cache"
                   /\ entry.resource_type = local.resource_type
                THEN Append(local.keys, entry.key)
                ELSE local.keys
    IN  /\ rc_pc["main"] \in {"invalidate_cache", "verify_resources"}
        /\ rc_access' = Access("main", "read")
        /\ IF Len(rc_metadata) # local.size
           THEN /\ rc_log' = [rc_log EXCEPT !.error = "RuntimeError"]
                /\ rc_pc' = [rc_pc EXCEPT !["main"] = "idle"]
                /\ rc_local' = [rc_local EXCEPT !["main"] = NoLocal]
           ELSE IF local.index < local.size
           THEN /\ rc_local' = [rc_local EXCEPT !["main"].index = @ + 1,
                                                !["main"].keys = keys]
                /\ UNCHANGED <<rc_pc, rc_log>>
           ELSE /\ rc_pc' = [rc_pc EXCEPT !["main"] =
                                IF local.keys = <<>> THEN "idle" ELSE "removing"]
                /\ rc_local' = [rc_local EXCEPT !["main"] =
                                   IF local.keys = <<>> THEN NoLocal ELSE local]
                /\ UNCHANGED rc_log
        /\ UNCHANGED <<rc_metadata, rc_lock>>

\* the second loop of invalidate_cache calls self.cache.remove(key)
InvalidateRemoveEnter ==
    /\ rc_pc["main"] = "removing"
    /\ Enters("main", "removing_locked", rc_local["main"])
    /\ UNCHANGED rc_log

\* the with block of that ResourceCache.remove
InvalidateRemoveBody ==
    LET local == rc_local["main"]
    IN  /\ rc_pc["main"] = "removing_locked"
        /\ rc_metadata' = DelItem(rc_metadata, Head(local.keys))
        /\ rc_access' = Access("main", IF Head(local.keys) \in KeysOf(rc_metadata)
                                       THEN "write" ELSE "read")
        /\ rc_lock' = Release(rc_lock)
        /\ rc_pc' = [rc_pc EXCEPT !["main"] =
                        IF Tail(local.keys) = <<>> THEN "idle" ELSE "removing"]
        /\ rc_local' = [rc_local EXCEPT !["main"] =
                           IF Tail(local.keys) = <<>> THEN NoLocal
                           ELSE [local EXCEPT !.keys = Tail(@)]]
        /\ UNCHANGED rc_log

\* _cleanup_worker wakes up and calls ResourceCache.cleanup_expired
CleanupEnter ==
    /\ rc_pc["cleanup"] = "idle"
    /\ rc_log.cleanups < MaxCleanups
    /\ rc_log' = [rc_log EXCEPT !.cleanups = @ + 1]
    /\ Enters("cleanup", "cleanup_expired", NoLocal)

\* the first loop of cleanup_expired
CleanupScan ==
    LET expired == SelectSeq(rc_metadata,
                             LAMBDA e : e.cache_policy = "temporary" /\ e.old)
    IN  /\ rc_pc["cleanup"] = "cleanup_expired"
        /\ rc_pc' = [rc_pc EXCEPT !["cleanup"] = "cleanup_removing"]
        /\ rc_local' = [rc_local EXCEPT !["cleanup"].keys =
                           [i \in 1..Len(expired) |-> expired[i].key]]
        /\ rc_access' = Access("cleanup", "read")
        /\ UNCHANGED <<rc_metadata, rc_lock, rc_log>>

\* the second loop of cleanup_expired: one self.remove(key), which takes the
\* lock again and gives it back, or the end of the with block
CleanupRemove ==
    LET local == rc_local["cleanup"]
    IN  /\ rc_pc["cleanup"] = "cleanup_removing"
        /\ IF local.keys = <<>>
           THEN /\ Leaves("cleanup")
                /\ UNCHANGED <<rc_metadata, rc_access>>
           ELSE /\ rc_metadata' = DelItem(rc_metadata, Head(local.keys))
                /\ rc_access' = [Access("cleanup", "write") EXCEPT
                                    !.locked = Acquire(rc_lock, "cleanup").owner = "cleanup"]
                /\ rc_lock' = Release(Acquire(rc_lock, "cleanup"))
                /\ rc_local' = [rc_local EXCEPT !["cleanup"].keys = Tail(@)]
                /\ UNCHANGED rc_pc
        /\ UNCHANGED rc_log

\* time passes: the entries get older than max_age_seconds
EntriesAge ==
    /\ \E i \in 1..Len(rc_metadata) : ~rc_metadata[i].old
    /\ rc_metadata' = [i \in 1..Len(rc_metadata) |-> [rc_metadata[i] EXCEPT !.old = TRUE]]
    /\ UNCHANGED <<rc_lock, rc_pc, rc_local, rc_access, rc_log>>

RcStep ==
    \/ \E k \in ResourceKeys, rt \in ResourceTypes, cp \in CachePolicies : CallAdd(k, rt, cp)
    \/ AddBody
    \/ \E k \in ResourceKeys : CallGet(k)
    \/ GetBody
    \/ \E k \in ResourceKeys : CallRemove(k)
    \/ RemoveBody
    \/ CallInvalidateAll
    \/ ClearBody
    \/ \E rt \in ResourceTypes : CallInvalidate(rt)
    \/ CallVerify
    \/ IterNext
    \/ InvalidateRemoveEnter
    \/ InvalidateRemoveBody
    \/ CleanupEnter
    \/ CleanupScan
    \/ CleanupRemove
    \/ EntriesAge

RcNext ==
    RcStep /\ UNCHANGED <<evVars, smVars, tmVars, gmVars, grVars, pfVars, emVars, mgVars, enVars, twVars, pjVars, snVars>>

(* --- Part I: next-state relation ---------------------------------------- *)
EvNext ==
    \/ \E et \in EventTypes, p \in Priorities, once \in BOOLEAN :
           Subscribe(et, p, once) /\ UNCHANGED <<smVars, tmVars, gmVars, extVars>>
    \/ \E et \in EventTypes, l \in 1..MaxListeners, byCallback \in BOOLEAN :
           Unsubscribe(et, l, byCallback) /\ UNCHANGED <<smVars, tmVars, gmVars, extVars>>
    \/ \E et \in EventTypes, immediate \in BOOLEAN : Emit(et, immediate) /\ UNCHANGED <<smVars, tmVars, gmVars, extVars>>
    \/ ProcessEvents /\ UNCHANGED <<smVars, tmVars, gmVars, extVars>>
    \/ DrainStep /\ UNCHANGED <<smVars, tmVars, gmVars, extVars>>
    \/ CallHandler /\ UNCHANGED <<smVars, tmVars, gmVars, extVars>>
    \/ HandlerRaise /\ UNCHANGED <<smVars, tmVars, gmVars, extVars>>
    \/ HandlerReturn /\ UNCHANGED <<smVars, tmVars, gmVars, extVars>>
    \/ FinishDispatch /\ UNCHANGED <<smVars, tmVars, gmVars, extVars>>


(***************************************************************************)
(* Specifications: one per component, and the assembled game                *)
(***************************************************************************)
\* the components after their construction
\* the units of gameplay/entities/ before any of them is created
UnitInit == EnInit /\ TwInit /\ PjInit /\ SnInit /\ RcInit

Init == EvInit /\ SmInit /\ TmInit /\ GmInit /\ GridInit /\ PfInit /\ EmInit /\ MgInit /\ UnitInit

\* the components at the end of Game.__init__
GameInit == EvInit /\ GameSmInit /\ TmInit /\ GmInit /\ GridInit /\ PfInit /\ EmInit /\ MgInit /\ UnitInit

\* an EventSystem driven by its clients
SpecEvents == Init /\ [][EvNext]_vars

\* a StateManager driven by its clients
SpecState == Init /\ [][SmNext]_vars

\* a GameTimer driven by its clients
SpecTimer == Init /\ [][TmNext]_vars

\* a GameTimer whose calls run to their end: a pass of
\* _process_scheduled_events that has started goes through its list
SpecTimerFair == Init /\ [][TmNext]_vars /\ WF_vars(TmNext)

\* the Game object after its construction
SpecGame == GameInit /\ [][GameNext]_vars

\* a Grid driven by its clients
SpecGrid == Init /\ [][GridNext]_vars

\* a Pathfinder on a grid with walls
PathInit == EvInit /\ SmInit /\ TmInit /\ GmInit /\ PathGridInit /\ PfInit /\ EmInit /\ MgInit /\ UnitInit

\* a Pathfinder driven by its clients
SpecPath == PathInit /\ [][PfNext]_vars

\* a Pathfinder on a grid that its clients change between the searches
SpecPathGrid == PathInit /\ [][PathGridNext]_vars

\* an EntityManager and its entities driven by their clients
SpecEntities == Init /\ [][EmNext]_vars

\* a MapGenerator asked for maps
SpecMap == Init /\ [][MgNext]_vars

\* the enemy alone
SpecEnemy == Init /\ [][EnNext]_vars

\* the tower and the enemies around it
SpecTower == Init /\ [][TwNext]_vars

\* the projectile manager alone
SpecProjectiles == Init /\ [][PjNext]_vars

\* the shooting tower alone
SpecSniper == Init /\ [][SnNext]_vars

\* the resource cache and its two threads alone
SpecResources == Init /\ [][RcNext]_vars

(***************************************************************************)
(* Part I: claims                                                          *)
(***************************************************************************)
\* number of listeners of a frame that have been invoked so far
Invoked(f) == IF f.running THEN f.idx ELSE f.idx - 1

EvTypeOK ==
    /\ current_recursion_depth \in 0..(MaxRecursionDepth + 1)
    /\ Len(event_queue) <= MaxQueueSize
    /\ Len(lsn) <= MaxListeners

\* C1: an event emitted with immediate=false is not delivered to any handler
\* during the emit call: no handler is invoked inside a dispatch that emit()
\* itself started for such an event.
C1_NoDeliveryDuringEmit ==
    \A i \in 1..Len(stack) :
        (stack[i].kind = "dispatch" /\ stack[i].via = "emit" /\ ~stack[i].ev.immediate)
            => Invoked(stack[i]) = 0

C3_DepthBounded == current_recursion_depth <= MaxRecursionDepth

\* C4: an event emitted with immediate=true below the depth limit is delivered
\* before emit returns: emit never returns leaving such an event undelivered
\* in immediate_events while its kind has handlers.
C4_ImmediateDeliveredInline ==
    [][(/\ Len(immediate_events') > Len(immediate_events)
        /\ current_recursion_depth < MaxRecursionDepth)
          => CacheAfterGet[immediate_events'[Len(immediate_events')].type] = <<>>]_vars

\* C5: a handler subscribed with once=true is called successfully at most once.
C5_OnceCalledAtMostOnce ==
    \A l \in 1..Len(lsn) : lsn[l].once => lsn[l].call_count <= 1

\* C6: a handler that raises is caught: failed_calls goes up by one and the
\* dispatch goes on with the next handler of the same snapshot; a dispatch
\* ends only when every handler of its snapshot has been invoked, and it is
\* then counted in events_processed.
C6_HandlerOver ==
    /\ stack # <<>>
    /\ Top.kind = "dispatch"
    /\ Top.running
    /\ \/ Len(stack') < Len(stack)
       \/ (Len(stack') = Len(stack) /\ ~stack'[Len(stack)].running)

C6_HandlerFailed ==
    /\ C6_HandlerOver
    /\ lsn'[Top.sorted[Top.idx]].call_count = lsn[Top.sorted[Top.idx]].call_count

C6_DispatchEnds ==
    /\ stack # <<>>
    /\ Top.kind = "dispatch"
    /\ Len(stack') < Len(stack)

C6_RaiseCaughtAndDispatchContinues ==
    [][/\ C6_HandlerFailed =>
            /\ stats'.failed_calls = stats.failed_calls + 1
            /\ Len(stack') = Len(stack)
            /\ stack'[Len(stack)].sorted = Top.sorted
            /\ stack'[Len(stack)].idx = Top.idx + 1
       /\ C6_DispatchEnds =>
            /\ Invoked(Top) = Len(Top.sorted)
            /\ ~Top.running
            /\ stats'.events_processed = stats.events_processed + 1]_vars

\* C6 witness: the only event emitted so far has two handlers; the first one
\* raised and the second one is executing.
C6_Witness ==
    /\ stats.events_sent = 1
    /\ stats.failed_calls = 1
    /\ stats.listeners_called = 0
    /\ Len(stack) = 1
    /\ Top.kind = "dispatch"
    /\ Top.running
    /\ Top.idx = 2

(***************************************************************************)
(* Part II: claims                                                         *)
(***************************************************************************)
\* the transition table holds a transition from -> to whose condition holds
TableAllows(from, to) ==
    /\ from \in StateTypes
    /\ \E i \in 1..Len(transitions[from]) :
           /\ transitions[from][i].to = to
           /\ CanTransition(transitions[from][i], shared_flag)

\* the step is a change_state(st) that returned false and changed neither the
\* current state nor the pending change
RejectedUnchanged(st) ==
    /\ last_change' = [to |-> st, ret |-> FALSE]
    /\ UNCHANGED <<current_state_type, pending_state_change>>

\* C8, as stated: a change_state request for a transition the table does not
\* allow from the current state returns false and leaves the current state
\* and the pending change as they were.  No transition leaves "no state".
C8_ForbiddenRejected ==
    [][\A st \in StateTypes :
          (ChangeState(st) /\ ~TableAllows(current_state_type, st))
              => RejectedUnchanged(st)]_vars

\* C8, amended: once a state is current, a change_state request for a
\* transition the table does not allow from it returns false and leaves the
\* current state and the pending change as they were.
C8_ForbiddenRejectedFromCurrent ==
    [][\A st \in StateTypes :
          (ChangeState(st) /\ current_state_type # "none"
                           /\ ~TableAllows(current_state_type, st))
              => RejectedUnchanged(st)]_vars

\* a registered state was requested from a current state whose table holds
\* transitions but none to it, while another change was pending
C8_Witness ==
    /\ current_state_type # "none"
    /\ transitions[current_state_type] # <<>>
    /\ last_change.to \in states
    /\ ~last_change.ret
    /\ ~TableAllows(current_state_type, last_change.to)
    /\ pending_state_change \notin {"none", last_change.to}

(***************************************************************************)
(* Part III: claims                                                        *)
(***************************************************************************)
TmTypeOK ==
    /\ timer_state \in {"stopped", "running", "paused"}
    /\ speed_multiplier \in 0..5
    /\ game_time \in 0..MaxGameTime
    /\ Len(scheduled_events) + Len(completed_events) <= MaxScheduled
    /\ fired \subseteq 1..MaxScheduled
    /\ pass.active => pass.idx \in 1..Len(pass.snapshot)

\* the loop of _process_scheduled_events is at event id, which the scheduler holds
AtEvent(id) ==
    /\ pass.active
    /\ pass.snapshot[pass.idx] = id
    /\ id \in Ids(scheduled_events)

\* after the step, event id is in the scheduler with the given target time
Rescheduled(id, target) ==
    /\ id \in Ids(scheduled_events')
    /\ EventOf(scheduled_events', id).target_time = target

\* after the step, event id is no longer in the scheduler
Removed(id) == id \notin Ids(scheduled_events')

\* the step moved event id to completed_events before its repetitions ran out
CancelledByCallback(id) ==
    /\ Removed(id)
    /\ completed_events' # <<>>
    /\ LET c == completed_events'[Len(completed_events')]
       IN c.id = id /\ c.repeats /\ c.repeat_count # 0

\* C9, as stated: on a tick every scheduled event whose target_time <=
\* game_time fires; a repeating event is rescheduled and stays in the
\* scheduler, a one-shot event is removed from it.
C9_DueEventsFire ==
    [][\A id \in 1..MaxScheduled :
          (AtEvent(id) /\ EventOf(scheduled_events, id).target_time <= game_time)
              => /\ id \in fired'
                 /\ IF EventOf(scheduled_events, id).repeats
                    THEN Rescheduled(id, game_time + EventOf(scheduled_events, id).repeat_interval)
                    ELSE Removed(id)]_vars

\* C9, amended: on a tick of a running timer every active event of the
\* scheduler whose target_time <= game_time fires; a repeating event that has
\* repetitions left is rescheduled at game_time + repeat_interval and stays
\* in the scheduler unless its callback cancelled it; a one-shot event and a
\* repeating event on its last repetition are removed from the scheduler.
C9_ActiveDueEventsFire ==
    [][\A id \in 1..MaxScheduled :
          (AtEvent(id) /\ EventOf(scheduled_events, id).is_active
                       /\ EventOf(scheduled_events, id).target_time <= game_time)
              => LET e == EventOf(scheduled_events, id)
                 IN /\ id \in fired'
                    /\ IF e.repeats /\ e.repeat_count # 1
                       THEN \/ Rescheduled(id, game_time + e.repeat_interval)
                            \/ CancelledByCallback(id)
                       ELSE Removed(id)]_vars

\* a pass fired a repeating event that stayed, rescheduled, and a one-shot
\* event that was moved to completed_events
C9_Witness ==
    /\ ~pass.active
    /\ \E i \in fired, j \in fired :
          /\ i \in Ids(scheduled_events)
          /\ EventOf(scheduled_events, i).repeats
          /\ EventOf(scheduled_events, i).is_active
          /\ EventOf(scheduled_events, i).target_time > game_time
          /\ j \in Ids(completed_events)
          /\ ~EventOf(completed_events, j).repeats

(***************************************************************************)
(* Part IV: claims                                                         *)
(***************************************************************************)
\* C7: in the assembled game each accepted request of the sequence MainMenu,
\* Gameplay, Pause, Gameplay, GameOver or Victory, MainMenu becomes the
\* current state on a subsequent tick: after a tick, the state of the latest
\* accepted request is the current state.
C7_RequestedStateBecomesCurrent ==
    (ticked /\ last_change.ret) => current_state_type = last_change.to

\* C10: on each tick of the running game, game_time advances by
\* min(dt, 1/30) x speed_multiplier when the game is not paused, and by 0
\* when it is paused.
C10_GameTimeAdvances ==
    [][\A dt \in DeltaTimes :
          OnUpdate(dt) => game_time' = game_time
                             + (IF is_paused THEN 0
                                ELSE Min(dt, DeltaCap) * speed_multiplier)]_vars

(***************************************************************************)
(* Part V: claims                                                          *)
(***************************************************************************)
\* the rules of a tile kind on the flags
FlagsAgree(v) ==
    /\ v.tile_type \in {WALL, WATER} => ~v.is_walkable /\ ~v.is_buildable
    /\ v.tile_type \in {PATH, SPAWN, BASE, DECORATION} => ~v.is_buildable

GridTypeOK ==
    /\ DOMAIN tile_properties \subseteq Cells(width, height)
    /\ assigned \subseteq Cells(width, height)
    /\ \A c \in DOMAIN tile_properties : tile_properties[c].tile_type = tiles[c]

\* C11: after any sequence of set_tile and set_tile_properties calls the
\* flags of each cell agree with the rules of its tile kind, unless they
\* were assigned explicitly.
C11_FlagsAgreeWithKind ==
    \A c \in Cells(width, height) :
        c \notin assigned => FlagsAgree(CellView(tiles, tile_properties, c))

\* C12: for every reachable grid, from_dict(to_dict(grid)) has in every cell
\* the same tile kind, flags, movement cost and elevation as the grid.
C12_RoundTrip ==
    LET g == FromDict(ToDict(width, height, tiles, tile_properties))
    IN \A c \in Cells(width, height) :
          CellView(g.tiles, g.tile_properties, c) = CellView(tiles, tile_properties, c)

(***************************************************************************)
(* Part VI: claims                                                         *)
(***************************************************************************)
PfTypeOK ==
    /\ Len(path_cache) <= MaxCacheSize
    /\ cache_max_size \in 1..MaxCacheSize
    /\ pf_stats.cache_hits + pf_stats.cache_misses <= MaxSearches
    /\ \A i \in 1..Len(recency) : recency[i] \in CacheKeys(path_cache)

\* every step on the grid costs 1
UnitCosts ==
    \A c \in Cells(width, height) :
        CellView(tiles, tile_properties, c).is_walkable
            => CellView(tiles, tile_properties, c).movement_cost = 1

\* C13: on a grid where every step costs 1, A* and Dijkstra return the same
\* cost for every start and goal between which a path exists.
C13_AStarCostIsDijkstraCost ==
    UnitCosts =>
        \A start \in Cells(width, height), goal \in Cells(width, height) :
            LET a == AStar(start, goal, "manhattan", DefaultMaxSearchNodes)
                d == Dijkstra(start, goal, "manhattan", DefaultMaxSearchNodes)
            IN (ValidatePositions(start, goal) /\ d.success)
                   => (a.success /\ a.cost = d.cost)

\* C14: find_path with max_search_nodes = 0 returns success = false, for
\* every start, goal and history of find_path calls.
C14_NoNodesNoSuccess ==
    [][\A start \in Endpoints, goal \in Endpoints, a \in Algorithms :
          FindPath(start, goal, a, 0) => ~last_result'.success]_vars

\* the step stored a result in a full cache
StoredInFullCache ==
    /\ Len(path_cache) = cache_max_size
    /\ path_cache' # path_cache
    /\ cache_max_size' = cache_max_size
    /\ Len(path_cache') = cache_max_size

\* C15: the cache never holds more entries than its maximum size, and a
\* result stored in a full cache evicts the least recently used entry, a
\* cache hit counting as a use.
C15_BoundedLru ==
    [][/\ Len(path_cache') <= cache_max_size'
       /\ StoredInFullCache => recency[1] \notin CacheKeys(path_cache')]_vars

(***************************************************************************)
(* Part VII: claims                                                        *)
(***************************************************************************)
EmTypeOK ==
    /\ entities \subseteq EntityIds
    /\ Len(entities_to_add) <= MaxPending
    /\ Len(entities_to_remove) <= MaxPending
    /\ em_stats.active_entities = Cardinality(entities)
    /\ \A ty \in EntityTypes : entities_by_type[ty] = {e \in entities : TypeOf(e) = ty}

\* the registry and its indices
Registry == <<entities, entities_by_tag, entities_by_type>>

\* the step is a deferred add_entity or remove_entity call
DeferredCall ==
    \/ \E e \in EntityIds : AddEntity(e, FALSE)
    \/ \E id \in EntityIds : RemoveEntity(id, FALSE)

\* after the step, entity e is in the registry and in the indices of its
\* type and of its tags
Registered(e) ==
    /\ e \in entities'
    /\ e \in entities_by_type'[TypeOf(e)]
    /\ \A t \in tags'[e] : e \in entities_by_tag'[t]

\* after the step, entity e is neither in the registry nor in an index
Unregistered(e) ==
    /\ e \notin entities'
    /\ \A ty \in EntityTypes : e \notin entities_by_type'[ty]
    /\ \A t \in Tags : e \notin entities_by_tag'[t]

\* C16: add_entity and remove_entity calls made during a frame leave the
\* registry and its tag and type indices unchanged until the pending
\* operations are applied at the start of update_all; after that every
\* queued removal and every queued addition (of an entity that is neither
\* queued for removal nor destroyed) has taken effect.
C16_DeferredUntilBoundary ==
    [][/\ DeferredCall => UNCHANGED Registry
       /\ UpdateAll =>
             /\ \A id \in Range(entities_to_remove) : Unregistered(id)
             /\ \A e \in Range(entities_to_add) \ Range(entities_to_remove) :
                    (~is_destroyed[e] /\ e \notin entities) => Registered(e)]_vars

\* C17: once an entity is marked destroyed no query returns it: get_entity
\* returns None and the lookups by tag, by type and by radius leave it out.
C17_DestroyedNotReturned ==
    \A e \in EntityIds :
        is_destroyed[e] =>
            /\ GetEntity(e) = 0
            /\ \A t \in Tags : e \notin GetEntitiesByTag(t)
            /\ \A ty \in EntityTypes : e \notin GetEntitiesByType(ty)
            /\ e \notin FindEntitiesInRadius(PositionOf(e), 1)

(***************************************************************************)
(* Part VIII: claims                                                       *)
(***************************************************************************)
\* generate_map has returned its grid
Returned == mg_pc = "done"

\* C18: every grid returned by generate_map has exactly one Spawn tile and
\* exactly one Base tile, whatever the random draws and the corrections.
C18_OneSpawnOneBase ==
    Returned =>
        /\ Cardinality(TilesOfType(current_grid, SPAWN)) = 1
        /\ Cardinality(TilesOfType(current_grid, BASE)) = 1

\* C19: on every grid returned by generate_map, the breadth-first search
\* over walkable cells that starts at the Spawn tile reaches the Base tile.
C19_BaseReachable == Returned => FindPathBetweenTypes(current_grid)

\* C20: on every grid returned by generate_map, no Buildable cell lies
\* within Manhattan distance 1 of a Path tile.
C20_BuildableAwayFromPath ==
    Returned =>
        \A b \in TilesOfType(current_grid, BUILDABLE) :
            DistanceToPath(b, TilesOfType(current_grid, PATH)) > 1

(***************************************************************************)
(* Part IX: claims                                                         *)
(***************************************************************************)
EnTypeOK ==
    /\ enemy_type \in EnemyTypes \cup {"none"}
    /\ en_state \in EnemyStates
    /\ health.current_health \in Int /\ health.is_alive \in BOOLEAN
    /\ Len(health.damage_over_time_effects) <= MaxDots
    /\ Len(movement.speed_modifiers) <= MaxModifiers
    /\ en_call.updates \in 0..MaxEnemyUpdates /\ en_call.hits \in 0..MaxEnemyHits

\* an enemy has been created
Spawned == enemy_type # "none"

\* C21: for every live enemy, after any sequence of direct hits,
\* damage-over-time ticks, heals, regeneration and level scaling,
\* 0 <= current_hp <= max_hp.
C21_HealthWithinBounds ==
    Spawned /\ health.is_alive =>
        /\ 0 <= health.current_health
        /\ health.current_health <= health.max_health

\* a scaled Iron Golem that was hit and has regenerated up to its max_health
C21_Witness ==
    /\ enemy_type = "iron_golem" /\ health.max_health = 1200
    /\ en_call.hits > 0 /\ en_call.updates = 4 /\ behavior_timer = 0
    /\ health.is_alive /\ health.current_health = health.max_health

\* the damage of a hit as the claim C22 computes it
FinalDamage(st, damage, damage_type) ==
    Max(1, Max(1, (damage * (100 - st.resistance[damage_type])) \div 100) - st.armor)

\* the step is a take_damage call on a live enemy
HitStep == en_call'.hits # en_call.hits /\ Spawned /\ health.is_alive

\* C22: each hit reduces an enemy's HP by final = max(1, effective - armor),
\* where effective = damage * (1 - resistance[type]) floored at 1, and the
\* enemy's armor stat is subtracted exactly once per hit.
C22_ArmorSubtractedOnce ==
    [][HitStep =>
          health'.current_health =
              Max(0, health.current_health
                         - FinalDamage(en_stats, en_call'.damage, en_call'.damage_type))]_vars

\* the moves of Enemy.state that the claim C23 allows
StateMoves ==
    {<<"spawning", "moving">>, <<"moving", "attacking">>, <<"dying", "dead">>}
        \cup {<<s, "dying">> : s \in {"spawning", "moving", "attacking"}}

\* C23: an enemy's state only moves along Spawning -> Moving -> Attacking
\* (at the end of its path) or Dying (when its HP reaches 0, by a direct hit
\* or by a damage-over-time tick) -> Dead, and every enemy whose HP reaches 0
\* passes through Dying and ends in Dead.
C23_DeathPassesThroughDying ==
    /\ [][en_state' # en_state => <<en_state, en_state'>> \in StateMoves]_vars
    /\ [](Spawned /\ ~health.is_alive => en_state \in {"dying", "dead"})
    /\ [](Spawned /\ ~health.is_alive => <>(en_state = "dead"))

\* C24: an enemy created with max_hp = 0 is dead from the moment it is
\* spawned and its position never changes.
C24_ZeroHealthIsDead ==
    Spawned /\ health.max_health = 0 =>
        /\ ~health.is_alive
        /\ movement.position = TileCenter(0)

\* the step is an update that recomputes the speed of the enemy
SpeedStep == en_call'.updates # en_call.updates /\ health.is_alive /\ ~movement.is_stunned

\* C25: when several slow effects are active on an enemy at once, its
\* effective speed multiplier is the product of their multipliers and is
\* never below 0.1.
C25_SlowsMultiplyWithFloor ==
    [][SpeedStep =>
          movement'.current_speed =
              (movement.base_speed
                   * Max(100, SpeedMultiplier(movement'.speed_modifiers))) \div 1000]_vars

(***************************************************************************)
(* Part X: claims                                                          *)
(***************************************************************************)
TwTypeOK ==
    /\ tower_type \in TowerTypes \cup {"none"}
    /\ tw_target \in 0..NumFoes
    /\ attack_timer \in Int /\ last_scan_time \in 0..ScanInterval
    /\ tw_call.updates \in 0..MaxTowerUpdates /\ tw_call.changes \in 0..MaxFoeChanges
    /\ tw_call.error \in {"none", "AttributeError", "ZeroDivisionError"}

\* C26: a tower's cooldown is never negative after any sequence of updates,
\* and immediately after a shot it equals 1/attack_speed.
C26_CooldownNotNegative ==
    /\ [][tw_call'.shot => attack_timer' = Cooldown(tower_type)]_vars
    /\ [](attack_timer >= 0)

\* the step is an update of a built tower whose target has died or has
\* moved out of range
TargetLostStep ==
    /\ tw_call'.updates # tw_call.updates /\ is_constructed /\ tw_target # 0
    /\ ~foes[tw_target].is_alive \/ ~IsEnemyInRange(targeting_range, foes[tw_target])

\* C27: when a tower's current target dies or moves out of range, the
\* tower's target is cleared to None on that tick and a new target is
\* searched for immediately, without waiting for the next scan interval.
C27_LostTargetReplacedAtOnce ==
    [][TargetLostStep =>
          /\ tw_call'.error = "none"
          /\ tw_target' = SelectBestTarget(TargetsInRange(targeting_range, foes))]_vars

\* C28: a tower whose range is 0 never acquires a target, for any positions
\* of the live enemies, including an enemy located exactly at the tower's
\* position.
C28_ZeroRangeNeverTargets ==
    tower_type # "none" /\ targeting_range = 0 => tw_target = 0

\* attack_timer when _update_mine_layer runs in an update
TimerAtMine ==
    IF attack_timer > 0 THEN attack_timer - tw_call'.delta_time ELSE attack_timer

\* C29: a MineLayer detonates only when its cooldown is ready: after a
\* detonation the cooldown is 3 s and no further detonation occurs until it
\* has fully elapsed, even if non-flying enemies remain within 48 units.
C29_MineWaitsForCooldown ==
    [][tw_call'.detonated =>
          /\ tower_type = "mine_layer"
          /\ TimerAtMine <= 0
          /\ attack_timer' = MineReload]_vars

(***************************************************************************)
(* Part XI: claims                                                         *)
(***************************************************************************)
PjTypeOK ==
    /\ Len(active_projectiles) <= MaxShots
    /\ cleanup_timer \in 0..cleanup_interval
    /\ pm_call.updates \in 0..MaxPmUpdates /\ pm_call.created \in 0..MaxShots
    /\ pm_call.error \in {"none", "NameError"}
    /\ \A i \in 1..Len(active_projectiles) :
           active_projectiles[i].projectile_type \in ProjectileTypes

\* the step is a tick of the manager
TickStep == pm_call'.updates # pm_call.updates

\* C30: any projectile whose has_hit flag is true at the end of a tick has
\* been removed from the active projectile set by the end of the next tick.
C30_HitRemovedByNextTick ==
    [][TickStep =>
          \A id \in pm_call.hit_at_tick_end \cap IdsOf(active_projectiles) :
              id \notin IdsOf(active_projectiles')]_vars

(***************************************************************************)
(* Part VII: claims on pending operations and on the indices               *)
(***************************************************************************)
\* C36: if an entity is added with a deferred add_entity and remove_entity
\* is then called for its id before the next frame boundary, the entity is
\* not in the registry after that boundary.
C36_RemovedBeforeBoundaryStaysOut ==
    [][UpdateAll => \A e \in em_refused : e \notin entities']_vars

\* C37: an entity is in the by-type index, and in the by-tag index under
\* each of its current tags, exactly when it is in the id map, and the
\* active_entities counter is the number of entities in the id map.
C37_IndicesAgreeWithIdMap ==
    /\ \A e \in EntityIds, ty \in EntityTypes :
           e \in entities_by_type[ty] <=> (e \in entities /\ TypeOf(e) = ty)
    /\ \A e \in EntityIds, t \in Tags :
           e \in entities_by_tag[t] <=> (e \in entities /\ t \in tags[e])
    /\ em_stats.active_entities = Cardinality(entities)

(***************************************************************************)
(* Part I: claims on the listener cache and on calls made by handlers      *)
(***************************************************************************)
\* the listeners now subscribed to event type et
Subscribed(et) == UNION {Range(listeners[et][p]) : p \in Priorities}

\* C32: after any sequence of subscribe and unsubscribe calls, the list that
\* _get_listeners_for_event returns for an event type holds exactly the
\* listeners now subscribed to that type: a cache that is not marked dirty
\* agrees with the subscriptions.
C32_CacheReadIsFresh ==
    \A et \in EventTypes : Range(CacheAfterGet[et]) = Subscribed(et)

\* the cache of a type was rebuilt after one of its listeners was unsubscribed
C32_Witness ==
    /\ ~cache_dirty
    /\ \E et \in EventTypes :
           /\ listener_cache[et] # <<>>
           /\ \E l \in 1..Len(lsn) : lsn[l].etype = et /\ l \notin Subscribed(et)

\* the step is an unsubscribe for event type et called by a handler of a
\* dispatch of that event type
UnsubscribeInDispatch(et) ==
    /\ stack # <<>>
    /\ Top.ev.type = et
    /\ \E l \in 1..MaxListeners, byCallback \in BOOLEAN : Unsubscribe(et, l, byCallback)

\* C33: an unsubscribe call made from inside a handler while an event of the
\* same kind is being dispatched is queued: it does not change the
\* subscription set during the dispatch in progress (the first half of the
\* claim; the second half says when the queued call takes effect).
C33_UnsubscribeInHandlerQueued ==
    [][\A et \in EventTypes : UnsubscribeInDispatch(et) => UNCHANGED listeners]_vars

(***************************************************************************)
(* Part II: claim on the pending change applied by update                  *)
(***************************************************************************)
\* the step is an update that applies a pending change in a manager that
\* has a current state
AppliesPending ==
    /\ SmUpdate
    /\ pending_state_change # "none"
    /\ current_state_type # "none"

\* C35: every pending state change applied by StateManager.update is a
\* transition the table allows from the state that is current at the moment
\* it is applied, whatever force_state_change or change_state calls were
\* made after the pending change was accepted.
C35_AppliedChangeIsAllowed ==
    [][AppliesPending => TableAllows(current_state_type, pending_state_change)]_vars

(***************************************************************************)
(* Part III: claim on cancelled events                                     *)
(***************************************************************************)
\* event id is in the scheduler's list and has been cancelled
CancelledInList(id) ==
    /\ id \in Ids(scheduled_events)
    /\ ~EventOf(scheduled_events, id).is_active

\* C39: a scheduled event that has been cancelled is eventually removed from
\* the list of scheduled events, so that the list does not grow without
\* bound: if _process_scheduled_events reaches the event again and again,
\* the event does not stay cancelled in the list for ever.  (That a cancelled
\* event does not fire is ShouldExecute, which PassExecute requires.)
C39_CancelledEventRemoved ==
    \A id \in 1..MaxScheduled :
        ([]<>AtEvent(id)) => ([]<>(~CancelledInList(id)))

(***************************************************************************)
(* Part VI: claim on the cache and the grid                                *)
(***************************************************************************)
\* what find_path computes for these arguments on the grid as it is now
FreshSearch(start, goal, algorithm, max_nodes) ==
    IF ~ValidatePositions(start, goal) THEN NoResult
    ELSE IF algorithm = "dijkstra" THEN Dijkstra(start, goal, "manhattan", max_nodes)
    ELSE AStar(start, goal, "manhattan", max_nodes)

\* find_path with these arguments finds its key in the cache
CacheHit(start, goal, algorithm, max_nodes) ==
    /\ ValidatePositions(start, goal)
    /\ GenerateCacheKey(start, goal, algorithm, "manhattan", max_nodes)
           \in CacheKeys(path_cache)

\* C38: a result that find_path returns from its cache is the result a
\* fresh search returns for the current grid and the given constraints,
\* after any sequence of grid mutations and earlier find_path calls.
C38_CachedIsFresh ==
    [][\A start \in Endpoints, goal \in Endpoints, a \in Algorithms :
          (FindPath(start, goal, a, DefaultMaxSearchNodes)
              /\ CacheHit(start, goal, a, DefaultMaxSearchNodes))
            => last_result' = FreshSearch(start, goal, a, DefaultMaxSearchNodes)]_vars

(***************************************************************************)
(* Part XII: claims on the projectiles of a tower                          *)
(***************************************************************************)

\* C31: a projectile that expires because its travel time reaches
\* max_travel_time is discarded without a projectile_impact event being
\* emitted for it and without damage to any enemy.
C31_ExpiredDiscardedSilently ==
    \A id \in sn_log.timed_out : sn_log.emitted[id] = 0 /\ sn_log.damaged[id] = 0

\* C40: each projectile that hits, by reaching its target, has caused
\* exactly one projectile_impact event and has had its damage applied
\* exactly once.
C40_OneImpactOneDamage ==
    \A id \in sn_log.reached : sn_log.emitted[id] = 1 /\ sn_log.damaged[id] = 1

(***************************************************************************)
(* Part XIII: claim on the lock of the resource cache                      *)
(***************************************************************************)

\* C34: every read and every write of the entries and the metadata of the
\* resource cache, by the main thread or by the cleanup thread, is made
\* while the thread holds the lock of the cache.
C34_AccessHoldsLock ==
    rc_access.kind # "none" => rc_access.locked

====
